---- MODULE Spec2Model ----
(***************************************************************************)
(* A model of the sonarcs-importer scripts: the importer                   *)
(* (codacy_sonar_importer.py) and the four auxiliary scripts.  Strings on  *)
(* which the code does character work (pattern ids, rule keys) are tuples  *)
(* of one-character strings; the remote platform is the environment: what  *)
(* it answers is chosen in Init, whether a request fails in each step.     *)
(***************************************************************************)
EXTENDS Integers, Sequences, FiniteSets, TLC

\* ------------------------------------------------------------------ bounds

\* the XML export holds at most MaxRules <rule> elements
MaxRules == 2
\* the server knows NumCursors continuation tokens
NumCursors == 2
\* the catalog of a tool has at most MaxPages pages in the runs of the importer
MaxPages == 2
\* at most MaxFailures requests of one run fail
MaxFailures == 1
\* a pattern id of the key derivation is made of at most MaxChunks chunks
MaxChunks == 3
\* the .env file has at most MaxEnvLines lines
MaxEnvLines == 2
\* runs in a row go on while the organization has fewer than MaxNames standards
MaxNames == 5

\* ------------------------------------------------------------------ strings

\* the fixed prefix of the pattern ids of the SonarC# tool
Prefix == <<"S", "o", "n", "a", "r", "C", "S", "h", "a", "r", "p", "_">>

\* a missing JSON field or XML element (None), as a value no string equals
None == <<"<None>">>

\* the empty string
EmptyStr == <<>>

\* Python truthiness of an optional string: neither None nor ""
Truthy(s) == s # None /\ s # EmptyStr

\* s.startswith(p)
StartsWith(s, p) == Len(s) >= Len(p) /\ SubSeq(s, 1, Len(p)) = p

\* s.replace(old, new): every non-overlapping occurrence, scanning from the left
RECURSIVE Replace(_, _, _)
Replace(s, old, new) ==
    IF Len(s) < Len(old) \/ Len(old) = 0 THEN s
    ELSE IF SubSeq(s, 1, Len(old)) = old
         THEN new \o Replace(SubSeq(s, Len(old) + 1, Len(s)), old, new)
         ELSE <<Head(s)>> \o Replace(Tail(s), old, new)

\* f"SonarCSharp_{rule_key}"
PatternIdOf(rule_key) == Prefix \o rule_key

\* the set of the elements of a sequence
Range(seq) == {seq[i] : i \in 1..Len(seq)}

\* the sequences over S of length at most n
SeqsUpTo(S, n) == UNION {[1..k -> S] : k \in 0..n}

\* the sequences that list the elements of the finite set S once each, in any order
Orderings(S) == {q \in [1..Cardinality(S) -> S] : Range(q) = S}

\* ------------------------------------------------------- dictionaries, lists

\* A Python dict, in insertion order: a sequence of <<key, value>> pairs with
\* pairwise different keys.
DictHas(d, k) == \E i \in 1..Len(d) : d[i][1] = k

\* d[k] = v: a key already there keeps its place and takes the new value
DictPut(d, k, v) ==
    IF DictHas(d, k)
    THEN [i \in 1..Len(d) |-> IF d[i][1] = k THEN <<k, v>> ELSE d[i]]
    ELSE Append(d, <<k, v>>)

\* d.get(k, default)
DictGet(d, k, default) ==
    IF DictHas(d, k) THEN (CHOOSE p \in Range(d) : p[1] = k)[2] ELSE default

\* ------------------------------------------------------------ the XML export

\* an element or field that is not there, among values that are plain strings
Missing == "<missing>"

\* The repository keys of the rules of an export; the first two are the ones
\* the importer maps to the SonarC# tool.
RepositoryKeys == {"csharpsquid", "roslyn.sonaranalyzer.security.cs", "fxcop"}

\* the rule keys of the model's exports
RuleKeys == {<<"S", "1">>, <<"S", "2">>}

\* The <rule> elements of the model's exports: repositoryKey, key and priority
\* (each may be missing) and the <parameter> children of <parameters>, when
\* that element is there.
RuleElements ==
    { [repositoryKey |-> "csharpsquid", key |-> <<"S", "1">>, priority |-> "MAJOR",
       has_parameters |-> FALSE, parameters |-> <<>>],
      [repositoryKey |-> "roslyn.sonaranalyzer.security.cs", key |-> <<"S", "1">>,
       priority |-> "MAJOR", has_parameters |-> TRUE,
       parameters |-> << <<"max", "3">> >>],
      [repositoryKey |-> "fxcop", key |-> <<"S", "2">>, priority |-> "MINOR",
       has_parameters |-> TRUE, parameters |-> <<>>],
      [repositoryKey |-> "csharpsquid", key |-> None, priority |-> "MAJOR",
       has_parameters |-> FALSE, parameters |-> <<>>] }

\* a <rule> of a known repository whose <parameters> element has no children
EmptyParametersRule ==
    [repositoryKey |-> "csharpsquid", key |-> <<"S", "1">>, priority |-> "MAJOR",
     has_parameters |-> TRUE, parameters |-> <<>>]

\* The XML file the script is pointed at: not there, not well-formed, or a
\* document with its <rule> elements in document order.
XmlFiles ==
    { [status |-> "missing", rules |-> <<>>], [status |-> "malformed", rules |-> <<>>] }
    \cup { [status |-> "ok", rules |-> r] : r \in SeqsUpTo(RuleElements, MaxRules) }

\* ------------------------------------------------------------ the remote API

\* the tool id the scripts hard-code for the SonarC# catalog
SonarUuid == "8954dff3-f19c-429c-ac76-c45fa5e73b62"

\* the id of some other tool
OtherUuid == "11111111-2222-3333-4444-555555555555"

\* the tool ids the remote knows
Uuids == {SonarUuid, OtherUuid}

\* the continuation tokens a server may hand out
AllCursorTokens == << <<"c", "1">>, <<"c", "2">>, <<"c", "3">>, <<"c", "4">> >>

CursorTokens == {AllCursorTokens[i] : i \in 1..NumCursors}

\* what the 'cursor' parameter of a request can be: none, or a token
PageKeys == {None} \cup CursorTokens

\* what pagination.cursor of a response can be: absent, "", or a token
CursorValues == {None, EmptyStr} \cup CursorTokens

\* A paginated endpoint: the page it answers to each 'cursor' parameter (None:
\* the request without one).  A page is its 'data' list and its
\* pagination.cursor.
Respond(server, cursor_param) == server[cursor_param]

\* The keys of the pages a client that follows the cursors is answered with,
\* first page first; it ends at a page without a cursor, or at a page whose
\* cursor leads back into the chain.
RECURSIVE ChainFrom(_, _, _)
ChainFrom(server, key, seen) ==
    IF key \in seen THEN <<>>
    ELSE <<key>> \o (IF Truthy(server[key].cursor)
                     THEN ChainFrom(server, server[key].cursor, seen \cup {key})
                     ELSE <<>>)

Chain(server) == ChainFrom(server, None, {})

\* the cursor chain ends: its last page has no cursor
FiniteChain(server) ==
    LET ch == Chain(server) IN ~Truthy(server[ch[Len(ch)]].cursor)

\* the ids of all the patterns of all the pages of the chain
CatalogIds(server) ==
    UNION { {e.id : e \in Range(server[k].data)} : k \in Range(Chain(server)) }
        \ {None, EmptyStr}

\* a page that no chain of the model reaches
BlankPage == [data |-> <<>>, cursor |-> None]

\* The servers over the given pages; a page outside the chain is blank, so no
\* two servers answer a client alike.
ServersOver(pages) ==
    { s \in [PageKeys -> pages \cup {BlankPage}] :
        \A k \in PageKeys \ Range(Chain(s)) : s[k] = BlankPage }

\* toolName.lower(), on the tool names of the model
Lower(name) ==
    CASE name = "SonarC#" -> "sonarc#"
      [] name = "ESLint" -> "eslint"
      [] OTHER -> name

\* ---------------------------------------------------------------- the state

VARIABLES
    script,          \* the script that runs
    pc,              \* where it is
    exit_status,     \* its exit status, once it has ended (Running before)
    printed,         \* the kinds of lines it has printed
    stats,           \* the numbers it has printed, as <<label, number>>
    requests,        \* the HTTP requests it has sent, in order, each with its outcome
    failures,        \* how many of them failed
    files,           \* the output files it has written
    xml,             \* the XML file (environment)
    remote_tools,    \* what GET /tools lists (environment)
    std_tools,       \* what GET .../coding-standards/<id>/tools lists (environment)
    existing_names,  \* the names of the organization's coding standards (environment)
    catalog,         \* the pattern endpoint of each tool (environment)
    standard_name,   \* self.standard_name
    sonar_rules,     \* self.sonar_rules
    tool_uuids,      \* self.tool_uuids
    standard_id,     \* run's standard_id
    final_name,      \* create_coding_standard's final_name
    todo,            \* the rest of the list a loop of the script walks
    tool_patterns,   \* enable_sonar_rules' tool_patterns
    enabled_rules_count, \* enable_sonar_rules' counter
    reported_name,   \* the name of the 'Created coding standard:' line
    collector,       \* the paginated collector that runs, if any
    cpc,             \* where the collector is: "idle", "loop" or "returned"
    col_uuid,        \* the tool whose patterns it requests
    cursor,          \* its cursor
    all_patterns,    \* its all_patterns
    col_failed,      \* whether a request of this collection failed
    std_patterns,    \* the patterns of the SonarC# tool in the verified standard (environment)
    xml_rules,       \* an auxiliary script's xml_rules
    pattern_keys,    \* the list of rule keys an auxiliary script derives
    pattern,         \* the pattern whose key is derived
    counts,          \* debug_pattern_count: the values its steps returned
    args_token,      \* args.api_token
    env_file,        \* the .env file of the working directory (environment)
    process_env,     \* os.environ as the process was started with (environment)
    environ,         \* os.environ
    api_token        \* what get_api_token returned

input_vars == <<xml, remote_tools, std_tools, catalog, standard_name, std_patterns>>

token_vars == <<args_token, env_file, process_env, environ, api_token>>

env_vars == <<input_vars, token_vars>>

aux_vars == <<xml_rules, pattern_keys, pattern, counts>>

\* what no step of the importer changes
fixed_vars == <<env_vars, aux_vars>>

importer_vars == <<sonar_rules, tool_uuids, standard_id, final_name, todo,
                   tool_patterns, enabled_rules_count, files, existing_names,
                   reported_name>>

collector_vars == <<collector, cpc, col_uuid, cursor, all_patterns, col_failed>>

process_vars == <<script, pc, exit_status, printed, stats, requests, failures>>

vars == <<process_vars, env_vars, aux_vars, importer_vars, collector_vars>>

\* ------------------------------------------------------------ the API token

\* The name of the variable. No character of it is a blank, '#' or '=', so it
\* stands as one element in the lines of the .env file.
EnvName == "CODACY_API_TOKEN"

\* s.lstrip(), s.rstrip(), s.strip(), with the blank as the only whitespace
RECURSIVE LStrip(_)
LStrip(s) == IF s # <<>> /\ Head(s) = " " THEN LStrip(Tail(s)) ELSE s

RECURSIVE RStrip(_)
RStrip(s) == IF s # <<>> /\ s[Len(s)] = " " THEN RStrip(SubSeq(s, 1, Len(s) - 1)) ELSE s

Strip(s) == LStrip(RStrip(s))

\* The body of the loop of load_env_file for one line: a line that is not
\* empty, is no comment and holds '=' sets os.environ[key] to the value, both
\* split at the first '=' and stripped.
LoadLine(env, raw) ==
    LET line == Strip(raw) IN
    IF line # <<>> /\ Head(line) # "#" /\ "=" \in Range(line)
    THEN LET i == CHOOSE j \in 1..Len(line) :
                      line[j] = "=" /\ \A k \in 1..(j - 1) : line[k] # "="
         IN DictPut(env, Strip(SubSeq(line, 1, i - 1)), Strip(SubSeq(line, i + 1, Len(line))))
    ELSE env

\* the loop of load_env_file over the lines of the file
RECURSIVE LoadLines(_, _)
LoadLines(env, lines) ==
    IF lines = <<>> THEN env ELSE LoadLines(LoadLine(env, Head(lines)), Tail(lines))

\* the state of a script whose main has got its token from the argument
TokenReady ==
    /\ args_token = <<"a">>
    /\ env_file = [exists |-> FALSE, lines |-> <<>>]
    /\ process_env = <<>>
    /\ environ = <<>>
    /\ api_token = <<"a">>

\* the exit status of a process that has not ended
Running == -1

\* sys.exit(code), after printing a line of the given kind
ExitWith(line, code) ==
    /\ printed' = printed \cup {line}
    /\ pc' = "exited"
    /\ exit_status' = code

\* the outcomes a request can have: it fails only while the failure budget lasts
Outcomes == IF failures < MaxFailures THEN {TRUE, FALSE} ELSE {TRUE}

\* the body of a request that carries none
NoBody == [name |-> None, enabled |-> FALSE, patterns |-> <<>>]

\* requests.<method>(url, ...): the request goes out and succeeds or fails
\* (a transport error, or a status raise_for_status rejects)
Send(method, target, uuid, cursor_param, body, ok) ==
    /\ requests' = Append(requests, [method |-> method, target |-> target, uuid |-> uuid,
                                     cursor |-> cursor_param, body |-> body, ok |-> ok])
    /\ failures' = failures + (IF ok THEN 0 ELSE 1)

\* ------------------------------------------------- the paginated collectors

\* the pattern ids one page adds to all_patterns: pattern.get('id'), if truthy
PageIds(page) == {e.id : e \in {x \in Range(page.data) : Truthy(x.id)}}

\* params of the next request: the cursor, if there is one
CursorParam(c) == IF Truthy(c) THEN c ELSE None

\* a collector is called: all_patterns = set(), cursor = None
CallCollector(name, uuid) ==
    /\ collector' = name
    /\ cpc' = "loop"
    /\ col_uuid' = uuid
    /\ cursor' = None
    /\ all_patterns' = {}
    /\ col_failed' = FALSE

\* CodacySonarImporter._get_available_patterns, one pass of its while loop: the
\* request for the hard-coded tool, then either the page's patterns and the
\* next cursor (the loop ends when there is none), or the warning and the end
\* of the loop.
GetAvailablePatternsPass(ok) ==
    /\ collector = "_get_available_patterns"
    /\ cpc = "loop"
    /\ IF ok
       THEN LET page == Respond(catalog[SonarUuid], CursorParam(cursor)) IN
            /\ all_patterns' = all_patterns \cup PageIds(page)
            /\ cursor' = page.cursor
            /\ cpc' = IF Truthy(page.cursor) THEN "loop" ELSE "returned"
            /\ UNCHANGED <<printed, col_failed>>
       ELSE /\ printed' = printed \cup {"Warning: Could not retrieve available patterns"}
            /\ cpc' = "returned"
            /\ col_failed' = TRUE
            /\ UNCHANGED <<all_patterns, cursor>>
    /\ UNCHANGED <<collector, col_uuid>>

\* CodacySonarImporter._get_all_tool_patterns, one pass of its while loop, for
\* the tool it was called with
GetAllToolPatternsPass(ok) ==
    /\ collector = "_get_all_tool_patterns"
    /\ cpc = "loop"
    /\ IF ok
       THEN LET page == Respond(catalog[col_uuid], CursorParam(cursor)) IN
            /\ all_patterns' = all_patterns \cup PageIds(page)
            /\ cursor' = page.cursor
            /\ cpc' = IF Truthy(page.cursor) THEN "loop" ELSE "returned"
            /\ UNCHANGED <<printed, col_failed>>
       ELSE /\ printed' = printed \cup {"Warning: Could not retrieve all patterns for tool"}
            /\ cpc' = "returned"
            /\ col_failed' = TRUE
            /\ UNCHANGED <<all_patterns, cursor>>
    /\ UNCHANGED <<collector, col_uuid>>

\* the collector has returned to its caller
CollectorReturns == cpc' = "idle" /\ UNCHANGED <<collector, col_uuid, cursor, all_patterns, col_failed>>

\* ------------------------------------------------------------ the importer

Importer == "codacy_sonar_importer"

\* run with the enabling step taken before the disabling one
RunStepsEnableFirst ==
    <<"parse_sonar_xml", "get_tools", "create_coding_standard", "enable_sonar_rules",
      "disable_all_tools", "promote_coding_standard", "_generate_output_files",
      "summary">>

\* CodacySonarImporter.run: its steps, in the order it takes them
RunSteps ==
    <<"parse_sonar_xml", "get_tools", "create_coding_standard", "disable_all_tools",
      "enable_sonar_rules", "promote_coding_standard", "_generate_output_files",
      "summary">>

\* the step of run that follows the given one
NextStep(step) ==
    LET i == CHOOSE k \in 1..Len(RunSteps) : RunSteps[k] = step IN RunSteps[i + 1]

\* the dict of a rule's parameters: each <parameter>'s key with its value
RECURSIVE ParseParameters(_, _)
ParseParameters(params, acc) ==
    IF params = <<>> THEN acc
    ELSE ParseParameters(Tail(params), DictPut(acc, Head(params)[1], Head(params)[2]))

\* The loop of parse_sonar_xml over the <rule> elements: the rules appended,
\* and whether an element without repositoryKey, key or priority raised
\* (rule.find(...) is None and has no .text).
RECURSIVE ParseRules(_, _)
ParseRules(elems, acc) ==
    IF elems = <<>> THEN [rules |-> acc, raised |-> FALSE]
    ELSE LET e == Head(elems) IN
         IF e.repositoryKey = Missing \/ e.key = None \/ e.priority = Missing
         THEN [rules |-> acc, raised |-> TRUE]
         ELSE ParseRules(Tail(elems),
                Append(acc, [repository_key |-> e.repositoryKey,
                             key |-> e.key,
                             priority |-> e.priority,
                             parameters |-> IF e.has_parameters
                                            THEN ParseParameters(e.parameters, <<>>)
                                            ELSE <<>>]))

\* parse_sonar_xml, and main's handler of what it raises
ParseSonarXml ==
    /\ script = Importer
    /\ pc = "parse_sonar_xml"
    /\ IF xml.status = "missing"
       THEN ExitWith("XML file not found", 1) /\ UNCHANGED <<sonar_rules, stats>>
       ELSE IF xml.status = "malformed"
       THEN ExitWith("Error parsing XML file", 1) /\ UNCHANGED <<sonar_rules, stats>>
       ELSE LET parsed == ParseRules(xml.rules, sonar_rules) IN
            /\ sonar_rules' = parsed.rules
            /\ IF parsed.raised
               THEN /\ ExitWith("Unexpected error", 1)
                    /\ stats' = stats \cup {<<"Found rules in XML file", Len(xml.rules)>>}
               ELSE /\ pc' = NextStep("parse_sonar_xml")
                    /\ stats' = stats \cup {<<"Found rules in XML file", Len(xml.rules)>>,
                                            <<"Successfully parsed", Len(parsed.rules)>>}
                    /\ UNCHANGED <<printed, exit_status>>
    /\ UNCHANGED <<script, requests, failures, fixed_vars, collector_vars>>
    /\ UNCHANGED <<tool_uuids, standard_id, final_name, todo, tool_patterns,
                   enabled_rules_count, files, existing_names, reported_name>>

\* the loop of get_tools: tool_uuids[name.lower()] = uuid for each tool with a uuid
RECURSIVE MapToolUuids(_, _)
MapToolUuids(tools, acc) ==
    IF tools = <<>> THEN acc
    ELSE MapToolUuids(Tail(tools),
                      IF Head(tools).uuid # Missing
                      THEN DictPut(acc, Lower(Head(tools).name), Head(tools).uuid)
                      ELSE acc)

\* get_tools that reports a failed request and lets run go on
GetToolsNoExit ==
    /\ script = Importer
    /\ pc = "get_tools"
    /\ \E ok \in Outcomes :
        /\ Send("GET", "tools", Missing, None, NoBody, ok)
        /\ IF ok
           THEN /\ tool_uuids' = MapToolUuids(remote_tools, tool_uuids)
                /\ stats' = stats \cup {<<"Found available tools", Len(remote_tools)>>,
                                        <<"Mapped tool UUIDs", Len(tool_uuids')>>}
                /\ UNCHANGED printed
           ELSE /\ printed' = printed \cup {"Error retrieving tools"}
                /\ UNCHANGED <<tool_uuids, stats>>
    /\ pc' = NextStep("get_tools")
    /\ UNCHANGED <<script, exit_status, fixed_vars, collector_vars>>
    /\ UNCHANGED <<sonar_rules, standard_id, final_name, todo, tool_patterns,
                   enabled_rules_count, files, existing_names, reported_name>>

\* get_tools
GetTools ==
    /\ script = Importer
    /\ pc = "get_tools"
    /\ \E ok \in Outcomes :
        /\ Send("GET", "tools", Missing, None, NoBody, ok)
        /\ IF ok
           THEN /\ tool_uuids' = MapToolUuids(remote_tools, tool_uuids)
                /\ stats' = stats \cup {<<"Found available tools", Len(remote_tools)>>,
                                        <<"Mapped tool UUIDs", Len(tool_uuids')>>}
                /\ pc' = NextStep("get_tools")
                /\ UNCHANGED <<printed, exit_status>>
           ELSE /\ ExitWith("Error retrieving tools", 1)
                /\ UNCHANGED <<tool_uuids, stats>>
    /\ UNCHANGED <<script, fixed_vars, collector_vars>>
    /\ UNCHANGED <<sonar_rules, standard_id, final_name, todo, tool_patterns,
                   enabled_rules_count, files, existing_names, reported_name>>

\* the characters of the decimal digits
Digits == <<"0", "1", "2", "3", "4", "5", "6", "7", "8", "9">>

\* str(n), n >= 0
RECURSIVE Decimal(_)
Decimal(n) == IF n < 10 THEN <<Digits[n + 1]>> ELSE Decimal(n \div 10) \o <<Digits[(n % 10) + 1]>>

\* f"{name} ({counter})"
Suffixed(name, counter) == name \o <<" ", "(">> \o Decimal(counter) \o <<")">>

\* the while loop of _get_unique_standard_name: the first counter whose name is free
RECURSIVE FirstFreeCounter(_, _, _)
FirstFreeCounter(name, names, counter) ==
    IF Suffixed(name, counter) \in names
    THEN FirstFreeCounter(name, names, counter + 1)
    ELSE counter

\* _get_unique_standard_name that tries the first suffix only
UniqueStandardNameFirstSuffix(name, names) ==
    IF name \notin names THEN name ELSE Suffixed(name, 1)

\* _get_unique_standard_name, when the listing succeeded
UniqueStandardName(name, names) ==
    IF name \notin names THEN name ELSE Suffixed(name, FirstFreeCounter(name, names, 1))

\* create_coding_standard, up to its POST: _get_unique_standard_name lists the
\* standards; when that fails it warns and keeps the requested name
GetUniqueStandardName ==
    /\ script = Importer
    /\ pc = "create_coding_standard"
    /\ \E ok \in Outcomes :
        /\ Send("GET", "coding-standards", Missing, None, NoBody, ok)
        /\ IF ok
           THEN /\ final_name' = UniqueStandardName(standard_name, existing_names)
                /\ printed' = IF standard_name \in existing_names
                              THEN printed \cup {"Standard name already exists"}
                              ELSE printed
           ELSE /\ final_name' = standard_name
                /\ printed' = printed \cup {"Warning: Could not check existing standard names"}
    /\ pc' = "create_post"
    /\ UNCHANGED <<script, exit_status, stats, fixed_vars, collector_vars>>
    /\ UNCHANGED <<sonar_rules, tool_uuids, standard_id, todo, tool_patterns,
                   enabled_rules_count, files, existing_names, reported_name>>

\* the id the remote gives the standard it creates
NewStandardId == "128992"

\* create_coding_standard, its POST: the id of the new standard, or the error
\* and the exit
CreateCodingStandard ==
    /\ script = Importer
    /\ pc = "create_post"
    /\ \E ok \in Outcomes :
        /\ Send("POST", "coding-standards", Missing, None,
                [name |-> final_name, enabled |-> FALSE, patterns |-> <<>>], ok)
        /\ IF ok
           THEN /\ standard_id' = NewStandardId
                /\ existing_names' = existing_names \cup {final_name}
                /\ printed' = printed \cup {"Successfully created coding standard"}
                /\ pc' = NextStep("create_coding_standard")
                /\ UNCHANGED exit_status
           ELSE /\ ExitWith("Error creating coding standard", 1)
                /\ UNCHANGED <<standard_id, existing_names>>
    /\ UNCHANGED <<script, stats, fixed_vars, collector_vars>>
    /\ UNCHANGED <<sonar_rules, tool_uuids, final_name, todo, tool_patterns,
                   enabled_rules_count, files, reported_name>>

\* disable_all_tools, its GET: the tools of the standard, or the error and the exit
DisableAllTools ==
    /\ script = Importer
    /\ pc = "disable_all_tools"
    /\ \E ok \in Outcomes :
        /\ Send("GET", "standard-tools", Missing, None, NoBody, ok)
        /\ IF ok
           THEN /\ todo' = std_tools
                /\ pc' = "_disable_tool"
                /\ UNCHANGED <<printed, exit_status>>
           ELSE /\ ExitWith("Error retrieving tools for coding standard", 1)
                /\ UNCHANGED todo
    /\ UNCHANGED <<script, stats, fixed_vars, collector_vars>>
    /\ UNCHANGED <<sonar_rules, tool_uuids, standard_id, final_name, tool_patterns,
                   enabled_rules_count, files, existing_names, reported_name>>

\* the payload of _disable_tool
DisablePayload == [name |-> None, enabled |-> FALSE, patterns |-> <<>>]

\* The loop of disable_all_tools, for a tool with a uuid: _disable_tool sends
\* the PATCH, and only warns when it fails.
DisableTool ==
    /\ script = Importer
    /\ pc = "_disable_tool"
    /\ todo # <<>>
    /\ Head(todo).uuid # Missing
    /\ \E ok \in Outcomes :
        /\ Send("PATCH", "standard-tool", Head(todo).uuid, None, DisablePayload, ok)
        /\ printed' = IF ok THEN printed
                      ELSE printed \cup {"Warning: Could not disable tool"}
    /\ todo' = Tail(todo)
    /\ UNCHANGED <<script, pc, exit_status, stats, fixed_vars, collector_vars>>
    /\ UNCHANGED <<sonar_rules, tool_uuids, standard_id, final_name, tool_patterns,
                   enabled_rules_count, files, existing_names, reported_name>>

\* the loop of disable_all_tools, for a tool without a uuid: nothing is sent
DisableToolSkipped ==
    /\ script = Importer
    /\ pc = "_disable_tool"
    /\ todo # <<>>
    /\ Head(todo).uuid = Missing
    /\ todo' = Tail(todo)
    /\ UNCHANGED <<process_vars, fixed_vars, collector_vars>>
    /\ UNCHANGED <<sonar_rules, tool_uuids, standard_id, final_name, tool_patterns,
                   enabled_rules_count, files, existing_names, reported_name>>

\* the end of disable_all_tools: it reports len(tools)
DisableAllToolsReturns ==
    /\ script = Importer
    /\ pc = "_disable_tool"
    /\ todo = <<>>
    /\ stats' = stats \cup {<<"Disabled tools", Len(std_tools)>>}
    /\ pc' = NextStep("disable_all_tools")
    /\ UNCHANGED <<script, exit_status, printed, requests, failures, fixed_vars, collector_vars>>
    /\ UNCHANGED <<sonar_rules, tool_uuids, standard_id, final_name, todo, tool_patterns,
                   enabled_rules_count, files, existing_names, reported_name>>

\* the Codacy tool a repository key maps to, or Missing for an unknown key
ToolNameOf(repository_key) ==
    IF repository_key = "csharpsquid" THEN "SonarC#"
    ELSE IF repository_key = "roslyn.sonaranalyzer.security.cs" THEN "SonarC#"
    ELSE Missing

\* a pattern configuration that leaves the parameters of the rule out
PatternConfigNoParameters(rule) ==
    [id |-> PatternIdOf(rule.key), enabled |-> TRUE, has_parameters |-> FALSE,
     parameters |-> <<>>]

\* the pattern configuration of a rule: enabled, with the rule's parameters
\* when it has any
PatternConfig(rule) ==
    [id |-> PatternIdOf(rule.key),
     enabled |-> TRUE,
     has_parameters |-> rule.parameters # <<>>,
     parameters |-> [i \in 1..Len(rule.parameters) |->
                        [name |-> rule.parameters[i][1], value |-> rule.parameters[i][2]]]]

\* The loop of _map_sonar_rules_to_codacy_patterns: a rule of an unknown
\* repository or whose pattern is not among the available ones is left out;
\* the others are appended to the list of their tool.
RECURSIVE MapRules(_, _, _)
MapRules(rules, available_patterns, acc) ==
    IF rules = <<>> THEN acc
    ELSE LET rule == Head(rules)
             tool_name == ToolNameOf(rule.repository_key)
         IN  IF tool_name = Missing \/ PatternIdOf(rule.key) \notin available_patterns
             THEN MapRules(Tail(rules), available_patterns, acc)
             ELSE MapRules(Tail(rules), available_patterns,
                           DictPut(acc, tool_name,
                                   Append(DictGet(acc, tool_name, <<>>), PatternConfig(rule))))

\* the keys _map_sonar_rules_to_codacy_patterns collects in skipped_rules
SkippedKeys(rules, available_patterns) ==
    {i \in 1..Len(rules) : /\ ToolNameOf(rules[i].repository_key) # Missing
                           /\ PatternIdOf(rules[i].key) \notin available_patterns}

\* enable_sonar_rules begins: _map_sonar_rules_to_codacy_patterns asks for the
\* available patterns
EnableSonarRules ==
    /\ script = Importer
    /\ pc = "enable_sonar_rules"
    /\ cpc = "idle"
    /\ CallCollector("_get_available_patterns", SonarUuid)
    /\ pc' = "_map_sonar_rules_to_codacy_patterns"
    /\ UNCHANGED <<script, exit_status, printed, stats, requests, failures, fixed_vars,
                   importer_vars>>

\* a request of _get_available_patterns, in the importer
ImporterGetAvailablePatterns ==
    /\ script = Importer
    /\ \E ok \in Outcomes :
        /\ GetAvailablePatternsPass(ok)
        /\ Send("GET", "patterns", SonarUuid, CursorParam(cursor), NoBody, ok)
    /\ UNCHANGED <<script, pc, exit_status, stats, fixed_vars, importer_vars>>

\* a request of _get_all_tool_patterns, in the importer
ImporterGetAllToolPatterns ==
    /\ script = Importer
    /\ \E ok \in Outcomes :
        /\ GetAllToolPatternsPass(ok)
        /\ Send("GET", "patterns", col_uuid, CursorParam(cursor), NoBody, ok)
    /\ UNCHANGED <<script, pc, exit_status, stats, fixed_vars, importer_vars>>

\* _map_sonar_rules_to_codacy_patterns, once the available patterns are there,
\* and the start of the loop of enable_sonar_rules over its result
MapSonarRulesToCodacyPatterns ==
    /\ script = Importer
    /\ pc = "_map_sonar_rules_to_codacy_patterns"
    /\ cpc = "returned"
    /\ CollectorReturns
    /\ tool_patterns' = MapRules(sonar_rules, all_patterns, <<>>)
    /\ stats' = stats \cup {<<"Retrieved available patterns", Cardinality(all_patterns)>>,
                            <<"rules from XML don't exist in Codacy",
                              Cardinality(SkippedKeys(sonar_rules, all_patterns))>>}
    /\ printed' = IF \E i \in 1..Len(sonar_rules) :
                        ToolNameOf(sonar_rules[i].repository_key) = Missing
                  THEN printed \cup {"Warning: Unknown repository key"}
                  ELSE printed
    /\ todo' = tool_patterns'
    /\ enabled_rules_count' = 0
    /\ pc' = "enable_sonar_rules_loop"
    /\ UNCHANGED <<script, exit_status, requests, failures, fixed_vars>>
    /\ UNCHANGED <<sonar_rules, tool_uuids, standard_id, final_name, files, existing_names,
                   reported_name>>

\* the loop of enable_sonar_rules, for a tool that get_tools did not list: a warning
EnableToolNotFound ==
    /\ script = Importer
    /\ pc = "enable_sonar_rules_loop"
    /\ todo # <<>>
    /\ DictGet(tool_uuids, Lower(Head(todo)[1]), Missing) = Missing
    /\ printed' = printed \cup {"Warning: Could not find Codacy tool"}
    /\ todo' = Tail(todo)
    /\ UNCHANGED <<script, pc, exit_status, stats, requests, failures, fixed_vars,
                   collector_vars>>
    /\ UNCHANGED <<sonar_rules, tool_uuids, standard_id, final_name, tool_patterns,
                   enabled_rules_count, files, existing_names, reported_name>>

\* the loop of enable_sonar_rules, for a listed tool: _enable_tool_patterns is
\* called and asks for all the patterns of the tool
EnableToolBegins ==
    /\ script = Importer
    /\ pc = "enable_sonar_rules_loop"
    /\ todo # <<>>
    /\ DictGet(tool_uuids, Lower(Head(todo)[1]), Missing) # Missing
    /\ cpc = "idle"
    /\ CallCollector("_get_all_tool_patterns",
                     DictGet(tool_uuids, Lower(Head(todo)[1]), Missing))
    /\ pc' = "_enable_tool_patterns"
    /\ UNCHANGED <<script, exit_status, printed, stats, requests, failures, fixed_vars,
                   importer_vars>>

\* a pattern _enable_tool_patterns lists as disabled
DisabledConfig(pattern_id) ==
    [id |-> pattern_id, enabled |-> FALSE, has_parameters |-> FALSE, parameters |-> <<>>]

\* The comprehensive_patterns lists _enable_tool_patterns can build: the given
\* patterns, then every other available pattern as disabled, in the order the
\* set hands them out.
ComprehensivePatterns(patterns, all_available_patterns) ==
    LET enabled_pattern_ids == {patterns[i].id : i \in 1..Len(patterns)}
        others == all_available_patterns \ enabled_pattern_ids
    IN  { patterns \o [i \in 1..Len(order) |-> DisabledConfig(order[i])] :
            order \in Orderings(others) }

\* _enable_tool_patterns, once all the patterns of the tool are there: the
\* PATCH; a failure is printed and returned as False, a success adds the
\* patterns to the count of enable_sonar_rules
EnableToolPatterns ==
    /\ script = Importer
    /\ pc = "_enable_tool_patterns"
    /\ cpc = "returned"
    /\ CollectorReturns
    /\ \E ok \in Outcomes :
       \E comprehensive_patterns \in ComprehensivePatterns(Head(todo)[2], all_patterns) :
        /\ Send("PATCH", "standard-tool", col_uuid, None,
                [name |-> None, enabled |-> TRUE, patterns |-> comprehensive_patterns], ok)
        /\ IF ok
           THEN /\ enabled_rules_count' = enabled_rules_count + Len(Head(todo)[2])
                /\ UNCHANGED printed
           ELSE /\ printed' = printed \cup {"Error enabling tool patterns"}
                /\ UNCHANGED enabled_rules_count
    /\ todo' = Tail(todo)
    /\ pc' = "enable_sonar_rules_loop"
    /\ UNCHANGED <<script, exit_status, stats, fixed_vars>>
    /\ UNCHANGED <<sonar_rules, tool_uuids, standard_id, final_name, tool_patterns,
                   files, existing_names, reported_name>>

\* the end of enable_sonar_rules: it reports the count
EnableSonarRulesReturns ==
    /\ script = Importer
    /\ pc = "enable_sonar_rules_loop"
    /\ todo = <<>>
    /\ stats' = stats \cup {<<"Successfully enabled rules", enabled_rules_count>>}
    /\ pc' = NextStep("enable_sonar_rules")
    /\ UNCHANGED <<script, exit_status, printed, requests, failures, fixed_vars,
                   collector_vars, importer_vars>>

\* promote_coding_standard with a handler that prints the error and returns
PromoteCodingStandardNoExit ==
    /\ script = Importer
    /\ pc = "promote_coding_standard"
    /\ \E ok \in Outcomes :
        /\ Send("POST", "promote", Missing, None, NoBody, ok)
        /\ printed' = printed \cup {IF ok THEN "Successfully promoted coding standard"
                                          ELSE "Error promoting coding standard"}
    /\ pc' = NextStep("promote_coding_standard")
    /\ UNCHANGED <<script, exit_status, stats, fixed_vars, collector_vars, importer_vars>>

\* promote_coding_standard: the POST, or the error and the exit
PromoteCodingStandard ==
    /\ script = Importer
    /\ pc = "promote_coding_standard"
    /\ \E ok \in Outcomes :
        /\ Send("POST", "promote", Missing, None, NoBody, ok)
        /\ IF ok
           THEN /\ printed' = printed \cup {"Successfully promoted coding standard"}
                /\ pc' = NextStep("promote_coding_standard")
                /\ UNCHANGED exit_status
           ELSE ExitWith("Error promoting coding standard", 1)
    /\ UNCHANGED <<script, stats, fixed_vars, collector_vars, importer_vars>>

\* the entry of a rule in the enabled_patterns file
EnabledEntry(rule) ==
    [rule_key |-> rule.key, pattern_id |-> PatternIdOf(rule.key),
     repository_key |-> rule.repository_key, priority |-> rule.priority,
     parameters |-> rule.parameters]

\* the entry of a rule in the skipped_rules file
SkippedEntry(rule) ==
    [rule_key |-> rule.key, pattern_id |-> PatternIdOf(rule.key),
     repository_key |-> rule.repository_key, priority |-> rule.priority,
     reason |-> "Pattern not available in Codacy"]

\* the rules of the list whose pattern is (wanted) or is not (~wanted) among
\* the available ones, in the order of the list
RECURSIVE RulesAvailable(_, _, _)
RulesAvailable(rules, available_patterns, wanted) ==
    IF rules = <<>> THEN <<>>
    ELSE (IF (PatternIdOf(Head(rules).key) \in available_patterns) = wanted
          THEN <<Head(rules)>> ELSE <<>>)
         \o RulesAvailable(Tail(rules), available_patterns, wanted)

\* _generate_output_files begins: it asks for the available patterns again
GenerateOutputFiles ==
    /\ script = Importer
    /\ pc = "_generate_output_files"
    /\ cpc = "idle"
    /\ CallCollector("_get_available_patterns", SonarUuid)
    /\ pc' = "write_output_files"
    /\ UNCHANGED <<script, exit_status, printed, stats, requests, failures, fixed_vars,
                   importer_vars>>

\* _generate_output_files, once the available patterns are there: the two files
WriteOutputFiles ==
    /\ script = Importer
    /\ pc = "write_output_files"
    /\ cpc = "returned"
    /\ CollectorReturns
    /\ LET enabled_rules == RulesAvailable(sonar_rules, all_patterns, TRUE)
           skipped_rules == RulesAvailable(sonar_rules, all_patterns, FALSE)
       IN  /\ files' = files \o
                 << [file |-> "skipped_rules", total |-> Len(skipped_rules),
                     coding_standard |-> standard_name,
                     rules |-> [i \in 1..Len(skipped_rules) |-> SkippedEntry(skipped_rules[i])]],
                    [file |-> "enabled_patterns", total |-> Len(enabled_rules),
                     coding_standard |-> standard_name,
                     rules |-> [i \in 1..Len(enabled_rules) |-> EnabledEntry(enabled_rules[i])]] >>
           /\ stats' = stats \cup {<<"Skipped rules file", Len(skipped_rules)>>,
                                   <<"Enabled patterns file", Len(enabled_rules)>>}
    /\ pc' = NextStep("_generate_output_files")
    /\ UNCHANGED <<script, exit_status, printed, requests, failures, fixed_vars>>
    /\ UNCHANGED <<sonar_rules, tool_uuids, standard_id, final_name, todo, tool_patterns,
                   enabled_rules_count, existing_names, reported_name>>

\* the end of run: the lines that report success, then the available patterns
\* are asked for once more
RunReportsSuccess ==
    /\ script = Importer
    /\ pc = "summary"
    /\ cpc = "idle"
    /\ printed' = printed \cup {"Import process completed successfully!"}
    /\ reported_name' = standard_name
    /\ CallCollector("_get_available_patterns", SonarUuid)
    /\ pc' = "print_summary"
    /\ UNCHANGED <<script, exit_status, stats, requests, failures, fixed_vars>>
    /\ UNCHANGED <<sonar_rules, tool_uuids, standard_id, final_name, todo, tool_patterns,
                   enabled_rules_count, files, existing_names>>

\* the end of run: the totals, and the process ends with status 0
RunPrintsTotals ==
    /\ script = Importer
    /\ pc = "print_summary"
    /\ cpc = "returned"
    /\ CollectorReturns
    /\ LET actual_imported == Len(RulesAvailable(sonar_rules, all_patterns, TRUE)) IN
       stats' = stats \cup {<<"Total rules in XML", Len(sonar_rules)>>,
                            <<"Rules successfully imported", actual_imported>>,
                            <<"Rules skipped", Len(sonar_rules) - actual_imported>>}
    /\ pc' = "exited"
    /\ exit_status' = 0
    /\ UNCHANGED <<script, printed, requests, failures, fixed_vars, importer_vars>>

\* ------------------------------------------------- the importer's environment

\* a pattern of a catalog page
Pattern(pattern_id) == [id |-> pattern_id]

\* The server whose pages hold the given data lists, one after the other: the
\* first answers the request without a cursor, each one but the last hands out
\* the token of the next.
LinearServer(datas) ==
    [k \in PageKeys |->
        IF k = None
        THEN [data |-> datas[1],
              cursor |-> IF Len(datas) > 1 THEN AllCursorTokens[1] ELSE None]
        ELSE LET i == CHOOSE j \in 1..NumCursors : AllCursorTokens[j] = k IN
             IF i + 1 > Len(datas) THEN BlankPage
             ELSE [data |-> datas[i + 1],
                   cursor |-> IF Len(datas) > i + 1 THEN AllCursorTokens[i + 1] ELSE None]]

\* the data of a page of the SonarC# catalog in the runs of the importer
ImporterPageData == SeqsUpTo({Pattern(PatternIdOf(k)) : k \in RuleKeys}, 1)

\* the catalog of the other tool
OtherServer == LinearServer(<< <<Pattern(<<"X", "1">>)>> >>)

\* the pattern endpoints in the runs of the importer: catalogs of one to
\* MaxPages pages
ImporterCatalogs ==
    { [u \in Uuids |-> IF u = SonarUuid THEN LinearServer(datas) ELSE OtherServer] :
        datas \in SeqsUpTo(ImporterPageData, MaxPages) \ {<<>>} }

\* what GET /tools lists
ToolLists ==
    { << [name |-> "ESLint", uuid |-> Missing], [name |-> "SonarC#", uuid |-> SonarUuid] >>,
      << [name |-> "ESLint", uuid |-> OtherUuid] >>,
      << [name |-> "SonarC#", uuid |-> OtherUuid] >> }

\* what the tools of a new coding standard are
StandardToolLists ==
    { <<>>,
      << [uuid |-> SonarUuid] >>,
      << [uuid |-> Missing], [uuid |-> OtherUuid], [uuid |-> SonarUuid] >> }

\* the name asked for
StandardNames == { <<"N">> }

\* the names of the standards the organization has
ExistingNameSets == { {}, {<<"N">>, Suffixed(<<"N">>, 1)} }

\* The environments of the runs of the importer: every XML file against every
\* tool list and every catalog, every list of standard tools against every
\* set of existing names, and the rule with the empty <parameters> element
\* against a catalog that has its pattern.
ImporterEnvironments ==
    { [xml |-> x, remote_tools |-> t, catalog |-> c,
       std_tools |-> << [uuid |-> Missing], [uuid |-> OtherUuid], [uuid |-> SonarUuid] >>,
       existing_names |-> {}] :
        x \in XmlFiles, t \in ToolLists, c \in ImporterCatalogs }
    \cup
    { [xml |-> [status |-> "ok", rules |-> <<r>>],
       remote_tools |-> << [name |-> "SonarC#", uuid |-> SonarUuid] >>,
       catalog |-> [u \in Uuids |-> OtherServer],
       std_tools |-> st, existing_names |-> n] :
        r \in {e \in RuleElements : e.key # None}, st \in StandardToolLists,
        n \in ExistingNameSets }
    \cup
    { [xml |-> [status |-> "ok", rules |-> <<EmptyParametersRule>>],
       remote_tools |-> << [name |-> "SonarC#", uuid |-> SonarUuid] >>,
       catalog |-> [u \in Uuids |->
                      IF u = SonarUuid
                      THEN LinearServer(<< <<Pattern(PatternIdOf(<<"S", "1">>))>>,
                                           <<Pattern(PatternIdOf(<<"S", "2">>))>> >>)
                      ELSE OtherServer],
       std_tools |-> << [uuid |-> SonarUuid] >>,
       existing_names |-> {}] }

InitImporter ==
    /\ TokenReady
    /\ script = Importer
    /\ pc = "parse_sonar_xml"
    /\ exit_status = Running
    /\ printed = {}
    /\ stats = {}
    /\ requests = <<>>
    /\ failures = 0
    /\ files = <<>>
    /\ \E env \in ImporterEnvironments :
        /\ xml = env.xml
        /\ remote_tools = env.remote_tools
        /\ std_tools = env.std_tools
        /\ existing_names = env.existing_names
        /\ catalog = env.catalog
    /\ standard_name \in StandardNames
    /\ sonar_rules = <<>>
    /\ tool_uuids = <<>>
    /\ standard_id = Missing
    /\ final_name = None
    /\ todo = <<>>
    /\ tool_patterns = <<>>
    /\ enabled_rules_count = 0
    /\ reported_name = None
    /\ collector = "none"
    /\ cpc = "idle"
    /\ col_uuid = Missing
    /\ cursor = None
    /\ all_patterns = {}
    /\ col_failed = FALSE
    /\ std_patterns = <<>>
    /\ xml_rules = <<>>
    /\ pattern_keys = <<>>
    /\ pattern = Pattern(None)
    /\ counts = <<>>

NextImporter ==
    \/ ParseSonarXml
    \/ GetTools
    \/ GetUniqueStandardName
    \/ CreateCodingStandard
    \/ DisableAllTools
    \/ DisableTool
    \/ DisableToolSkipped
    \/ DisableAllToolsReturns
    \/ EnableSonarRules
    \/ ImporterGetAvailablePatterns
    \/ MapSonarRulesToCodacyPatterns
    \/ EnableToolNotFound
    \/ EnableToolBegins
    \/ ImporterGetAllToolPatterns
    \/ EnableToolPatterns
    \/ EnableSonarRulesReturns
    \/ PromoteCodingStandard
    \/ GenerateOutputFiles
    \/ WriteOutputFiles
    \/ RunReportsSuccess
    \/ RunPrintsTotals

\* the runs of the importer
Spec == InitImporter /\ [][NextImporter]_vars

\* ------------------------------------------------- the claims on the importer

\* the requests that change the remote platform
Mutating(r) == r.method \in {"POST", "PATCH"}

IsCreate(r) == r.method = "POST" /\ r.target = "coding-standards"

IsDisable(r) == r.method = "PATCH" /\ r.target = "standard-tool" /\ ~r.body.enabled

IsEnable(r) == r.method = "PATCH" /\ r.target = "standard-tool" /\ r.body.enabled

IsPromote(r) == r.method = "POST" /\ r.target = "promote"

\* the keys of the <rule> elements of the XML file
XmlKeys == {xml.rules[i].key : i \in 1..Len(xml.rules)} \ {None}

\* the ids a patterns list gives with the given value of 'enabled'
IdsWith(patterns, enabled) ==
    {patterns[i].id : i \in {k \in 1..Len(patterns) : patterns[k].enabled = enabled}}

\* C1: in every run that reaches the promote request, an enabling PATCH was
\* sent for the SonarC# tool whose patterns list enables exactly the patterns
\* SonarCSharp_<key> of the XML rule keys that are in the tool's remote catalog
\* and lists every other pattern of that catalog as disabled.
C1_ExactConfiguration ==
    \A j \in 1..Len(requests) :
        IsPromote(requests[j]) =>
            \E i \in 1..(j - 1) :
                /\ IsEnable(requests[i])
                /\ LET remote_catalog == CatalogIds(catalog[requests[i].uuid])
                       matched == {PatternIdOf(k) : k \in XmlKeys} \cap remote_catalog
                   IN  /\ IdsWith(requests[i].body.patterns, TRUE) = matched
                       /\ IdsWith(requests[i].body.patterns, FALSE) = remote_catalog \ matched

\* the place of a mutating request in the order create, disable, enable, promote
Rank(r) ==
    CASE IsCreate(r) -> 1
      [] IsDisable(r) -> 2
      [] IsEnable(r) -> 3
      [] IsPromote(r) -> 4
      [] OTHER -> 0

\* C2: the mutating requests of a run go out in the order create POST, disable
\* PATCHes, enable PATCH(es), promote POST: every mutating request is one of
\* the four, none is followed by one of an earlier kind, every disable PATCH
\* follows a create POST that returned the standard id, and the create POST and
\* the promote POST are each sent at most once.
C2_FixedOrder ==
    /\ \A i \in 1..Len(requests) : Mutating(requests[i]) => Rank(requests[i]) # 0
    /\ \A i, j \in 1..Len(requests) :
        (i < j /\ Mutating(requests[i]) /\ Mutating(requests[j]))
            => Rank(requests[i]) <= Rank(requests[j])
    /\ \A j \in 1..Len(requests) :
        (Mutating(requests[j]) /\ ~IsCreate(requests[j]))
            => /\ standard_id = NewStandardId
               /\ \E i \in 1..(j - 1) : IsCreate(requests[i]) /\ requests[i].ok
    /\ Cardinality({i \in 1..Len(requests) : IsCreate(requests[i])}) <= 1
    /\ Cardinality({i \in 1..Len(requests) : IsPromote(requests[i])}) <= 1

\* a run that sent all four kinds of mutating request and ended with status 0
C2_Witness ==
    /\ exit_status = 0
    /\ \E c, d, e, p \in 1..Len(requests) :
        /\ IsCreate(requests[c]) /\ IsDisable(requests[d])
        /\ IsEnable(requests[e]) /\ IsPromote(requests[p])

FatalLine(r) ==
    CASE r.method = "GET" /\ r.target = "tools" -> "Error retrieving tools"
      [] IsCreate(r) -> "Error creating coding standard"
      [] r.method = "GET" /\ r.target = "standard-tools" ->
            "Error retrieving tools for coding standard"
      [] IsPromote(r) -> "Error promoting coding standard"
      [] OTHER -> Missing

C4_PromoteOnlyAfterEnable ==
    \A j \in 1..Len(requests) :
        IsPromote(requests[j]) =>
            \E i \in 1..(j - 1) : IsEnable(requests[i]) /\ requests[i].ok

\* ------------------------------------------------ get_default_patterns.py

\* the rule key the auxiliary scripts derive from a pattern id:
\* pattern_id.replace('SonarCSharp_', '')
RuleKeyOf(pattern_id) == Replace(pattern_id, Prefix, EmptyStr)

\* the rule keys one page adds in get_all_sonarc_patterns: the key of every
\* pattern whose id is there and starts with the prefix
PageRuleKeys(page) ==
    {RuleKeyOf(e.id) : e \in {x \in Range(page.data) : Truthy(x.id) /\ StartsWith(x.id, Prefix)}}

\* get_all_sonarc_patterns with a loop that ends after its first page
GetAllSonarcPatternsFirstPageOnly(ok) ==
    /\ collector = "get_all_sonarc_patterns"
    /\ cpc = "loop"
    /\ IF ok
       THEN LET page == Respond(catalog[SonarUuid], CursorParam(cursor)) IN
            /\ all_patterns' = all_patterns \cup PageRuleKeys(page)
            /\ cursor' = page.cursor
            /\ cpc' = "returned"
            /\ UNCHANGED <<printed, col_failed>>
       ELSE /\ printed' = printed \cup {"Error retrieving patterns"}
            /\ cpc' = "returned"
            /\ col_failed' = TRUE
            /\ UNCHANGED <<all_patterns, cursor>>
    /\ UNCHANGED <<collector, col_uuid>>

\* get_all_sonarc_patterns with a loop that never breaks on a page without cursor
GetAllSonarcPatternsNoBreak(ok) ==
    /\ collector = "get_all_sonarc_patterns"
    /\ cpc = "loop"
    /\ IF ok
       THEN LET page == Respond(catalog[SonarUuid], CursorParam(cursor)) IN
            /\ all_patterns' = all_patterns \cup PageRuleKeys(page)
            /\ cursor' = page.cursor
            /\ cpc' = "loop"
            /\ UNCHANGED <<printed, col_failed>>
       ELSE /\ printed' = printed \cup {"Error retrieving patterns"}
            /\ cpc' = "returned"
            /\ col_failed' = TRUE
            /\ UNCHANGED <<all_patterns, cursor>>
    /\ UNCHANGED <<collector, col_uuid>>

\* get_all_sonarc_patterns, one pass of its while loop: the request, then
\* either the keys of the page's patterns and the next cursor (the loop ends
\* when there is none), or the error line and the end of the loop
GetAllSonarcPatternsPass(ok) ==
    /\ collector = "get_all_sonarc_patterns"
    /\ cpc = "loop"
    /\ IF ok
       THEN LET page == Respond(catalog[SonarUuid], CursorParam(cursor)) IN
            /\ all_patterns' = all_patterns \cup PageRuleKeys(page)
            /\ cursor' = page.cursor
            /\ cpc' = IF Truthy(page.cursor) THEN "loop" ELSE "returned"
            /\ UNCHANGED <<printed, col_failed>>
       ELSE /\ printed' = printed \cup {"Error retrieving patterns"}
            /\ cpc' = "returned"
            /\ col_failed' = TRUE
            /\ UNCHANGED <<all_patterns, cursor>>
    /\ UNCHANGED <<collector, col_uuid>>

\* ------------------------------------- the collectors against any server

\* the three paginated collectors
Collectors == {"_get_available_patterns", "_get_all_tool_patterns", "get_all_sonarc_patterns"}

\* the data lists of a page: patterns of the tool, of another tool, without
\* an id, with an empty id
PageData ==
    { <<>>,
      <<Pattern(PatternIdOf(<<"S", "1">>))>>,
      <<Pattern(PatternIdOf(<<"S", "2">>))>>,
      <<Pattern(<<"X", "1">>)>>,
      <<Pattern(None)>>,
      <<Pattern(EmptyStr)>>,
      <<Pattern(PatternIdOf(<<"S", "1">>)), Pattern(<<"X", "1">>)>> }

\* every server over these pages: its chain may end with an absent or an empty
\* cursor, or lead back to a page it has already served
AnyServers == ServersOver({[data |-> d, cursor |-> c] : d \in PageData, c \in CursorValues})

\* a collector is called against a server
InitPages ==
    /\ TokenReady
    /\ script = "collector"
    /\ pc = "collect"
    /\ exit_status = Running
    /\ printed = {}
    /\ stats = {}
    /\ requests = <<>>
    /\ failures = 0
    /\ files = <<>>
    /\ xml = [status |-> "ok", rules |-> <<>>]
    /\ remote_tools = <<>>
    /\ std_tools = <<>>
    /\ existing_names = {}
    /\ \E server \in AnyServers : catalog = [u \in Uuids |-> server]
    /\ standard_name \in StandardNames
    /\ sonar_rules = <<>>
    /\ tool_uuids = <<>>
    /\ standard_id = Missing
    /\ final_name = None
    /\ todo = <<>>
    /\ tool_patterns = <<>>
    /\ enabled_rules_count = 0
    /\ reported_name = None
    /\ collector \in Collectors
    /\ cpc = "loop"
    /\ col_uuid = SonarUuid
    /\ cursor = None
    /\ all_patterns = {}
    /\ col_failed = FALSE
    /\ std_patterns = <<>>
    /\ xml_rules = <<>>
    /\ pattern_keys = <<>>
    /\ pattern = Pattern(None)
    /\ counts = <<>>

\* what a request of a collector leaves alone when no script is around it
CollectorFrame(ok) ==
    /\ failures' = failures + (IF ok THEN 0 ELSE 1)
    /\ UNCHANGED <<script, pc, exit_status, stats, requests, fixed_vars, importer_vars>>

PagesGetAvailablePatterns ==
    /\ script = "collector"
    /\ \E ok \in Outcomes : GetAvailablePatternsPass(ok) /\ CollectorFrame(ok)

PagesGetAllToolPatterns ==
    /\ script = "collector"
    /\ \E ok \in Outcomes : GetAllToolPatternsPass(ok) /\ CollectorFrame(ok)

PagesGetAllSonarcPatterns ==
    /\ script = "collector"
    /\ \E ok \in Outcomes : GetAllSonarcPatternsPass(ok) /\ CollectorFrame(ok)

NextPages ==
    \/ PagesGetAvailablePatterns
    \/ PagesGetAllToolPatterns
    \/ PagesGetAllSonarcPatterns

\* The collectors against any server.  A collector is sequential code: while
\* it has a next step it takes it.
SpecPages == InitPages /\ [][NextPages]_vars /\ WF_vars(NextPages)

\* the id without its first Len(Prefix) characters
StripPrefix(pattern_id) == SubSeq(pattern_id, Len(Prefix) + 1, Len(pattern_id))

\* what the pages of the chain hold for a collector: the pattern ids, or for
\* get_all_sonarc_patterns the keys of the ids that start with the prefix
ChainYield(name, server) ==
    IF name = "get_all_sonarc_patterns"
    THEN {StripPrefix(id) : id \in {x \in CatalogIds(server) : StartsWith(x, Prefix)}}
    ELSE CatalogIds(server)

\* C6: when every request succeeded, a collector returns exactly what the
\* pages of the cursor chain hold (the chain: the page answered to the request
\* without cursor, then the page answered to each returned cursor, up to the
\* first page whose cursor is absent or empty).
C6_CollectsChain ==
    (script = "collector" /\ cpc = "returned" /\ ~col_failed)
        => all_patterns = ChainYield(collector, catalog[col_uuid])

\* get_all_sonarc_patterns has returned from a chain of two pages or more whose
\* last cursor is the empty string, with keys from a page after the first
C6_Witness ==
    /\ script = "collector" /\ collector = "get_all_sonarc_patterns"
    /\ cpc = "returned" /\ ~col_failed
    /\ Len(Chain(catalog[col_uuid])) >= 2
    /\ cursor = EmptyStr
    /\ all_patterns # PageRuleKeys(catalog[col_uuid][None])

\* C9 as stated: against every server, every collector returns.
C9_AlwaysTerminates == <>(cpc = "returned")

\* C9, amended: against a server whose cursor chain ends with a page without
\* cursor, every collector returns.
C9_TerminatesOnFiniteChain ==
    (script = "collector" /\ FiniteChain(catalog[col_uuid])) => <>(cpc = "returned")

\* a collector has returned from a chain as long as the server can make it
C9_Witness ==
    /\ script = "collector" /\ cpc = "returned" /\ ~col_failed
    /\ FiniteChain(catalog[col_uuid])
    /\ Len(Chain(catalog[col_uuid])) = NumCursors + 1

\* ------------------------------------------------- the derivation of rule keys

\* ord(c), for the characters of the model
Ord(c) ==
    CASE c = "1" -> 49 [] c = "2" -> 50 [] c = "C" -> 67 [] c = "S" -> 83
      [] c = "X" -> 88 [] c = "_" -> 95 [] c = "a" -> 97 [] c = "h" -> 104
      [] c = "n" -> 110 [] c = "o" -> 111 [] c = "p" -> 112 [] c = "r" -> 114

\* s < t, for two strings
RECURSIVE StrLess(_, _)
StrLess(s, t) ==
    IF t = <<>> THEN FALSE
    ELSE IF s = <<>> THEN TRUE
    ELSE IF Head(s) = Head(t) THEN StrLess(Tail(s), Tail(t))
    ELSE Ord(Head(s)) < Ord(Head(t))

\* sorted(strs): the strings in ascending order, duplicates kept
RECURSIVE Sorted(_)
Sorted(strs) ==
    IF strs = <<>> THEN <<>>
    ELSE LET rest == Sorted(Tail(strs))
             x == Head(strs)
             before == SelectSeq(rest, LAMBDA y : StrLess(y, x))
             after == SelectSeq(rest, LAMBDA y : ~StrLess(y, x))
         IN before \o <<x>> \o after

\* The loop of get_codacy_patterns over the patterns of the response: the key
\* of each pattern whose id (the empty string if it has none) starts with the
\* prefix, in the order of the response
CodacyPatternKeys(patterns) ==
    LET ids == [i \in 1..Len(patterns) |->
                    IF patterns[i].id = None THEN EmptyStr ELSE patterns[i].id]
        prefixed == SelectSeq(ids, LAMBDA x : StartsWith(x, Prefix))
    IN [i \in 1..Len(prefixed) |-> RuleKeyOf(prefixed[i])]

\* the loop of get_enabled_patterns_in_standard over the patterns of the
\* response: the same, for the patterns that are enabled
EnabledRuleKeys(patterns) ==
    CodacyPatternKeys(SelectSeq(patterns, LAMBDA x : x.enabled))

\* the strings the pattern ids of the key derivation are made of
KeyChunks == {Prefix, SubSeq(Prefix, 1, 5), <<"S">>, <<"1">>}

RECURSIVE Flatten(_)
Flatten(chunks) == IF chunks = <<>> THEN <<>> ELSE Head(chunks) \o Flatten(Tail(chunks))

\* the pattern ids of the key derivation: up to MaxChunks chunks in a row
KeyIds == {Flatten(chunks) : chunks \in SeqsUpTo(KeyChunks, MaxChunks)}

\* the scripts that derive rule keys with a loop of their own
KeyScripts == {"check_missing_rules", "get_default_patterns", "verify_coding_standard"}

\* a script is about to run the body of its loop on a pattern of a response
InitKey ==
    /\ TokenReady
    /\ script \in KeyScripts
    /\ pc = "rule_key"
    /\ exit_status = Running
    /\ printed = {}
    /\ stats = {}
    /\ requests = <<>>
    /\ failures = 0
    /\ files = <<>>
    /\ xml = [status |-> "ok", rules |-> <<>>]
    /\ remote_tools = <<>>
    /\ std_tools = <<>>
    /\ existing_names = {}
    /\ catalog = [u \in Uuids |-> OtherServer]
    /\ standard_name \in StandardNames
    /\ sonar_rules = <<>>
    /\ tool_uuids = <<>>
    /\ standard_id = Missing
    /\ final_name = None
    /\ todo = <<>>
    /\ tool_patterns = <<>>
    /\ enabled_rules_count = 0
    /\ reported_name = None
    /\ collector = "none"
    /\ cpc = "idle"
    /\ col_uuid = SonarUuid
    /\ cursor = None
    /\ all_patterns = {}
    /\ col_failed = FALSE
    /\ std_patterns = <<>>
    /\ xml_rules = <<>>
    /\ pattern_keys = <<>>
    /\ pattern \in [id : KeyIds \cup {None}, enabled : BOOLEAN]
    /\ counts = <<>>

\* check_missing_rules.get_codacy_patterns, the body of its loop
CheckMissingRuleKey ==
    /\ script = "check_missing_rules"
    /\ pc = "rule_key"
    /\ pattern_keys' = pattern_keys \o CodacyPatternKeys(<<pattern>>)
    /\ pc' = "rule_key_done"
    /\ UNCHANGED <<script, exit_status, printed, stats, requests, failures>>
    /\ UNCHANGED <<env_vars, xml_rules, pattern, counts, importer_vars, collector_vars>>

\* get_default_patterns.get_all_sonarc_patterns, the body of its loop
GetDefaultRuleKey ==
    /\ script = "get_default_patterns"
    /\ pc = "rule_key"
    /\ all_patterns' = all_patterns \cup PageRuleKeys([data |-> <<pattern>>, cursor |-> None])
    /\ pc' = "rule_key_done"
    /\ UNCHANGED <<script, exit_status, printed, stats, requests, failures>>
    /\ UNCHANGED <<fixed_vars, importer_vars, collector, cpc, col_uuid, cursor, col_failed>>

\* verify_coding_standard.get_enabled_patterns_in_standard, the body of its loop
VerifyRuleKey ==
    /\ script = "verify_coding_standard"
    /\ pc = "rule_key"
    /\ pattern_keys' = pattern_keys \o EnabledRuleKeys(<<pattern>>)
    /\ pc' = "rule_key_done"
    /\ UNCHANGED <<script, exit_status, printed, stats, requests, failures>>
    /\ UNCHANGED <<env_vars, xml_rules, pattern, counts, importer_vars, collector_vars>>

NextKey ==
    \/ CheckMissingRuleKey
    \/ GetDefaultRuleKey
    \/ VerifyRuleKey

\* the derivation of a rule key from a pattern id, in the three scripts
SpecKey == InitKey /\ [][NextKey]_vars

\* C8: a pattern id that starts with the prefix gives the id without that one
\* leading prefix, the rest unchanged; any other id gives no key.  (In
\* verify_coding_standard only the enabled patterns are looked at.)
C8_OnePrefixRemoved ==
    pc = "rule_key_done" =>
        LET keys == IF script = "get_default_patterns" THEN all_patterns
                    ELSE Range(pattern_keys)
            looked_at == script = "verify_coding_standard" => pattern.enabled
        IN keys = IF looked_at /\ StartsWith(pattern.id, Prefix)
                  THEN {StripPrefix(pattern.id)}
                  ELSE {}

\* ------------------------------------------------- the auxiliary scripts

CheckMissingRules == "check_missing_rules"
GetDefaultPatterns == "get_default_patterns"
VerifyCodingStandard == "verify_coding_standard"
DebugPatternCount == "debug_pattern_count"

\* what the auxiliary actions leave alone of the state of the importer
importer_rest == <<sonar_rules, tool_uuids, final_name, tool_patterns, enabled_rules_count,
                   files, existing_names, reported_name>>

\* an exception nothing catches: the interpreter prints the traceback and the
\* script exits with status 1
Uncaught == ExitWith("Traceback", 1)

\* the loop of get_xml_rules: the text of the <key> of every <rule> that has
\* one, in document order
XmlRuleKeys(elems) ==
    LET with_key == SelectSeq(elems, LAMBDA e : e.key # None)
    IN [i \in 1..Len(with_key) |-> with_key[i].key]

\* -- check_missing_rules.py

\* main up to get_xml_rules(): the sorted list of the keys; what xml_tree.parse
\* raises is not caught
CheckMissingGetXmlRules ==
    /\ script = CheckMissingRules
    /\ pc = "get_xml_rules"
    /\ IF xml.status = "ok"
       THEN /\ xml_rules' = Sorted(XmlRuleKeys(xml.rules))
            /\ printed' = printed \cup {"Checking for missing rules..."}
            /\ pc' = "get_codacy_patterns"
            /\ UNCHANGED exit_status
       ELSE /\ printed' = printed \cup {"Checking for missing rules...", "Traceback"}
            /\ pc' = "exited"
            /\ exit_status' = 1
            /\ UNCHANGED xml_rules
    /\ UNCHANGED <<script, stats, requests, failures>>
    /\ UNCHANGED <<env_vars, pattern_keys, pattern, counts, importer_vars, collector_vars>>

\* get_codacy_patterns: one request, without a cursor; raise_for_status is not
\* caught; the sorted keys of the patterns of the response
CheckMissingGetCodacyPatterns ==
    /\ script = CheckMissingRules
    /\ pc = "get_codacy_patterns"
    /\ \E ok \in Outcomes :
        /\ Send("GET", "patterns", SonarUuid, None, NoBody, ok)
        /\ IF ok
           THEN /\ pattern_keys' =
                      Sorted(CodacyPatternKeys(Respond(catalog[SonarUuid], None).data))
                /\ pc' = "report"
                /\ UNCHANGED <<printed, exit_status>>
           ELSE /\ Uncaught
                /\ UNCHANGED pattern_keys
    /\ UNCHANGED <<script, stats>>
    /\ UNCHANGED <<env_vars, xml_rules, pattern, counts, importer_vars, collector_vars>>

\* the rest of main: the counts, the two differences, the summary
CheckMissingReport ==
    /\ script = CheckMissingRules
    /\ pc = "report"
    /\ LET missing_in_codacy == Range(xml_rules) \ Range(pattern_keys)
           extra_in_codacy == Range(pattern_keys) \ Range(xml_rules)
       IN stats' = stats \cup
            { <<"Rules in XML", Len(xml_rules)>>,
              <<"Patterns in Codacy", Len(pattern_keys)>>,
              <<"XML rules", Len(xml_rules)>>,
              <<"Codacy patterns", Len(pattern_keys)>>,
              <<"Missing in Codacy", Cardinality(missing_in_codacy)>>,
              <<"Extra in Codacy", Cardinality(extra_in_codacy)>>,
              <<"Matching rules", Cardinality(Range(xml_rules) \cap Range(pattern_keys))>> }
    /\ printed' = printed \cup {"Summary:"}
    /\ pc' = "exited"
    /\ exit_status' = 0
    /\ UNCHANGED <<script, requests, failures, fixed_vars, importer_vars, collector_vars>>

\* -- get_default_patterns.py

\* main up to get_xml_rules(): the set of the keys; then get_all_sonarc_patterns
\* is called
DefaultsGetXmlRules ==
    /\ script = GetDefaultPatterns
    /\ pc = "get_xml_rules"
    /\ IF xml.status = "ok"
       THEN /\ xml_rules' = Range(XmlRuleKeys(xml.rules))
            /\ printed' = printed \cup {"Analyzing default patterns vs XML patterns"}
            /\ pc' = "get_all_sonarc_patterns"
            /\ CallCollector("get_all_sonarc_patterns", SonarUuid)
            /\ UNCHANGED exit_status
       ELSE /\ printed' = printed \cup {"Analyzing default patterns vs XML patterns", "Traceback"}
            /\ pc' = "exited"
            /\ exit_status' = 1
            /\ UNCHANGED <<xml_rules, collector_vars>>
    /\ UNCHANGED <<script, stats, requests, failures>>
    /\ UNCHANGED <<env_vars, pattern_keys, pattern, counts, importer_vars>>

\* a request of get_all_sonarc_patterns, in the script
DefaultsGetAllSonarcPatterns ==
    /\ script = GetDefaultPatterns
    /\ pc = "get_all_sonarc_patterns"
    /\ \E ok \in Outcomes :
        /\ GetAllSonarcPatternsPass(ok)
        /\ Send("GET", "patterns", SonarUuid, CursorParam(cursor), NoBody, ok)
    /\ UNCHANGED <<script, pc, exit_status, stats, fixed_vars, importer_vars>>

\* the rest of main, with what get_all_sonarc_patterns returned
DefaultsReport ==
    /\ script = GetDefaultPatterns
    /\ pc = "get_all_sonarc_patterns"
    /\ cpc = "returned"
    /\ CollectorReturns
    /\ stats' = stats \cup
            { <<"Rules in XML", Cardinality(xml_rules)>>,
              <<"Total SonarC# patterns available", Cardinality(all_patterns)>>,
              <<"Patterns in XML that exist in Codacy", Cardinality(xml_rules \cap all_patterns)>>,
              <<"Patterns in XML that DON'T exist in Codacy", Cardinality(xml_rules \ all_patterns)>>,
              <<"Extra patterns in Codacy (not in XML)", Cardinality(all_patterns \ xml_rules)>> }
    /\ printed' = printed \cup {"The extra patterns that Codacy might be enabling by default"}
    /\ pc' = "exited"
    /\ exit_status' = 0
    /\ UNCHANGED <<script, requests, failures, fixed_vars, importer_vars>>

\* -- verify_coding_standard.py

\* main up to get_xml_rules(): the sorted list of the keys
VerifyGetXmlRules ==
    /\ script = VerifyCodingStandard
    /\ pc = "get_xml_rules"
    /\ IF xml.status = "ok"
       THEN /\ xml_rules' = Sorted(XmlRuleKeys(xml.rules))
            /\ printed' = printed \cup {"Verifying Coding Standard ID"}
            /\ pc' = "get_enabled_patterns_in_standard"
            /\ UNCHANGED exit_status
       ELSE /\ printed' = printed \cup {"Verifying Coding Standard ID", "Traceback"}
            /\ pc' = "exited"
            /\ exit_status' = 1
            /\ UNCHANGED xml_rules
    /\ UNCHANGED <<script, stats, requests, failures>>
    /\ UNCHANGED <<env_vars, pattern_keys, pattern, counts, importer_vars, collector_vars>>

\* get_enabled_patterns_in_standard: one request for the tool in the standard;
\* the sorted keys of its enabled patterns, or the error line and no key
VerifyGetEnabledPatterns ==
    /\ script = VerifyCodingStandard
    /\ pc = "get_enabled_patterns_in_standard"
    /\ \E ok \in Outcomes :
        /\ Send("GET", "standard-tool", SonarUuid, None, NoBody, ok)
        /\ IF ok
           THEN /\ pattern_keys' = Sorted(EnabledRuleKeys(std_patterns))
                /\ UNCHANGED printed
           ELSE /\ pattern_keys' = <<>>
                /\ printed' = printed \cup {"Error retrieving coding standard patterns"}
    /\ pc' = "report"
    /\ UNCHANGED <<script, exit_status, stats>>
    /\ UNCHANGED <<env_vars, xml_rules, pattern, counts, importer_vars, collector_vars>>

\* the rest of main: the counts, the two differences, the summary, and the
\* success rate, a division by the number of XML rules
VerifyReport ==
    /\ script = VerifyCodingStandard
    /\ pc = "report"
    /\ LET missing_in_standard == Range(xml_rules) \ Range(pattern_keys)
           extra_in_standard == Range(pattern_keys) \ Range(xml_rules)
           matching_rules == Range(xml_rules) \cap Range(pattern_keys)
       IN stats' = stats \cup
            { <<"Rules in XML", Len(xml_rules)>>,
              <<"Patterns enabled in coding standard", Len(pattern_keys)>>,
              <<"XML rules", Len(xml_rules)>>,
              <<"Enabled patterns", Len(pattern_keys)>>,
              <<"Missing from standard", Cardinality(missing_in_standard)>>,
              <<"Extra in standard", Cardinality(extra_in_standard)>>,
              <<"Correctly enabled", Cardinality(matching_rules)>> }
    /\ pc' = "exited"
    /\ IF Len(xml_rules) = 0
       THEN /\ printed' = printed \cup {"Summary:", "Traceback"}
            /\ exit_status' = 1
       ELSE /\ printed' = printed \cup {"Summary:", "Success rate"}
            /\ exit_status' = 0
    /\ UNCHANGED <<script, requests, failures, fixed_vars, importer_vars, collector_vars>>

\* -- debug_pattern_count.py

\* create_minimal_standard, and main's return when it gives None
DebugCreateMinimalStandard ==
    /\ script = DebugPatternCount
    /\ pc = "create_minimal_standard"
    /\ \E ok \in Outcomes :
        /\ Send("POST", "standards", Missing, None,
                [name |-> <<"Minimal Test">>, enabled |-> FALSE, patterns |-> <<>>], ok)
        /\ IF ok
           THEN /\ standard_id' = NewStandardId
                /\ printed' = printed \cup {"Testing Codacy coding standard default behavior",
                                            "Created minimal coding standard"}
                /\ pc' = "check_standard_patterns"
                /\ UNCHANGED exit_status
           ELSE /\ printed' = printed \cup {"Testing Codacy coding standard default behavior",
                                            "Error creating coding standard"}
                /\ pc' = "exited"
                /\ exit_status' = 0
                /\ UNCHANGED standard_id
    /\ UNCHANGED <<script, stats, fixed_vars, collector_vars, todo, importer_rest>>

\* what the list of coding standards says of the new standard
StandardListings ==
    { [found |-> FALSE, enabledPatternsCount |-> 0],
      [found |-> TRUE, enabledPatternsCount |-> 0],
      [found |-> TRUE, enabledPatternsCount |-> 7] }

\* what check_standard_patterns returns: the count of the standard in the
\* list, 0 if it is not there, 0 after the error line if the request failed
CheckStandardPatterns(ok, listing) ==
    /\ Send("GET", "standards", Missing, None, NoBody, ok)
    /\ IF ok
       THEN IF listing.found
            THEN /\ counts' = Append(counts, listing.enabledPatternsCount)
                 /\ printed' = printed \cup {"Enabled patterns"}
            ELSE /\ counts' = Append(counts, 0)
                 /\ printed' = printed \cup {"Standard not found"}
       ELSE /\ counts' = Append(counts, 0)
            /\ printed' = printed \cup {"Error checking standard"}

\* main, step 1: the count of the standard just created
DebugCheckInitial ==
    /\ script = DebugPatternCount
    /\ pc = "check_standard_patterns"
    /\ \E ok \in Outcomes, listing \in StandardListings : CheckStandardPatterns(ok, listing)
    /\ pc' = "disable_all_tools_in_standard"
    /\ UNCHANGED <<script, exit_status, stats, env_vars, xml_rules, pattern_keys, pattern>>
    /\ UNCHANGED <<collector_vars, standard_id, todo, importer_rest>>

\* disable_all_tools_in_standard: the request for the tools of the standard
DebugDisableAllTools ==
    /\ script = DebugPatternCount
    /\ pc = "disable_all_tools_in_standard"
    /\ \E ok \in Outcomes :
        /\ Send("GET", "standard-tools", Missing, None, NoBody, ok)
        /\ IF ok
           THEN /\ todo' = std_tools
                /\ pc' = "disable_loop"
                /\ UNCHANGED <<printed, counts>>
           ELSE /\ printed' = printed \cup {"Error disabling tools"}
                /\ counts' = Append(counts, 0)
                /\ pc' = "check_standard_patterns_after"
                /\ UNCHANGED todo
    /\ UNCHANGED <<script, exit_status, stats, env_vars, xml_rules, pattern_keys, pattern>>
    /\ UNCHANGED <<collector_vars, standard_id, importer_rest>>

\* its loop, for one tool: a PATCH if the tool has a uuid; a PATCH that fails
\* ends the function with the error line and 0
DebugDisableTool ==
    /\ script = DebugPatternCount
    /\ pc = "disable_loop"
    /\ todo # <<>>
    /\ IF Head(todo).uuid = Missing
       THEN /\ todo' = Tail(todo)
            /\ UNCHANGED <<pc, printed, counts, requests, failures>>
       ELSE \E ok \in Outcomes :
            /\ Send("PATCH", "standard-tool", Head(todo).uuid, None, DisablePayload, ok)
            /\ IF ok
               THEN /\ todo' = Tail(todo)
                    /\ UNCHANGED <<pc, printed, counts>>
               ELSE /\ printed' = printed \cup {"Error disabling tools"}
                    /\ counts' = Append(counts, 0)
                    /\ pc' = "check_standard_patterns_after"
                    /\ UNCHANGED todo
    /\ UNCHANGED <<script, exit_status, stats, env_vars, xml_rules, pattern_keys, pattern>>
    /\ UNCHANGED <<collector_vars, standard_id, importer_rest>>

\* the end of its loop: it returns len(tools)
DebugDisableReturns ==
    /\ script = DebugPatternCount
    /\ pc = "disable_loop"
    /\ todo = <<>>
    /\ counts' = Append(counts, Len(std_tools))
    /\ pc' = "check_standard_patterns_after"
    /\ UNCHANGED <<script, exit_status, printed, stats, requests, failures>>
    /\ UNCHANGED <<env_vars, xml_rules, pattern_keys, pattern>>
    /\ UNCHANGED <<collector_vars, standard_id, todo, importer_rest>>

\* main, step 3: the count after the tools were disabled
DebugCheckAfter ==
    /\ script = DebugPatternCount
    /\ pc = "check_standard_patterns_after"
    /\ \E ok \in Outcomes, listing \in StandardListings : CheckStandardPatterns(ok, listing)
    /\ pc' = "summary"
    /\ UNCHANGED <<script, exit_status, stats, env_vars, xml_rules, pattern_keys, pattern>>
    /\ UNCHANGED <<collector_vars, standard_id, todo, importer_rest>>

\* the end of main: the summary of the three values
DebugSummary ==
    /\ script = DebugPatternCount
    /\ pc = "summary"
    /\ stats' = stats \cup { <<"Initial patterns", counts[1]>>,
                             <<"Tools disabled", counts[2]>>,
                             <<"After disabling all tools", counts[3]>> }
    /\ printed' = printed \cup {"Summary:"}
    /\ pc' = "exited"
    /\ exit_status' = 0
    /\ UNCHANGED <<script, requests, failures, fixed_vars, importer_vars, collector_vars>>

\* -- the runs of the auxiliary scripts

\* the patterns of the SonarC# tool in the coding standard that is verified
StandardPatternLists ==
    { <<>>,
      << [id |-> PatternIdOf(<<"S", "1">>), enabled |-> TRUE] >>,
      << [id |-> PatternIdOf(<<"S", "1">>), enabled |-> TRUE],
         [id |-> PatternIdOf(<<"S", "2">>), enabled |-> FALSE] >>,
      << [id |-> PatternIdOf(<<"S", "2">>), enabled |-> TRUE],
         [id |-> <<"X", "1">>, enabled |-> TRUE],
         [id |-> PatternIdOf(<<"S", "1">>), enabled |-> TRUE] >> }

\* The environments of the runs of the auxiliary scripts: the two that read the
\* catalog with every XML file and every catalog, the one that reads a coding
\* standard with every XML file and every list of patterns, the one that
\* creates a standard with every list of tools.
AuxEnvironments ==
    { [script |-> sc, first |-> "get_xml_rules", xml |-> x, catalog |-> c,
       std_patterns |-> <<>>, std_tools |-> <<>>] :
        sc \in {CheckMissingRules, GetDefaultPatterns}, x \in XmlFiles, c \in ImporterCatalogs }
    \cup
    { [script |-> VerifyCodingStandard, first |-> "get_xml_rules", xml |-> x,
       catalog |-> [u \in Uuids |-> OtherServer], std_patterns |-> sp, std_tools |-> <<>>] :
        x \in XmlFiles, sp \in StandardPatternLists }
    \cup
    { [script |-> DebugPatternCount, first |-> "create_minimal_standard",
       xml |-> [status |-> "missing", rules |-> <<>>],
       catalog |-> [u \in Uuids |-> OtherServer], std_patterns |-> <<>>, std_tools |-> st] :
        st \in StandardToolLists }

InitAux ==
    /\ TokenReady
    /\ \E env \in AuxEnvironments :
        /\ script = env.script
        /\ pc = env.first
        /\ xml = env.xml
        /\ catalog = env.catalog
        /\ std_patterns = env.std_patterns
        /\ std_tools = env.std_tools
    /\ exit_status = Running
    /\ printed = {}
    /\ stats = {}
    /\ requests = <<>>
    /\ failures = 0
    /\ files = <<>>
    /\ remote_tools = <<>>
    /\ existing_names = {}
    /\ standard_name \in StandardNames
    /\ sonar_rules = <<>>
    /\ tool_uuids = <<>>
    /\ standard_id = Missing
    /\ final_name = None
    /\ todo = <<>>
    /\ tool_patterns = <<>>
    /\ enabled_rules_count = 0
    /\ reported_name = None
    /\ collector = "none"
    /\ cpc = "idle"
    /\ col_uuid = SonarUuid
    /\ cursor = None
    /\ all_patterns = {}
    /\ col_failed = FALSE
    /\ xml_rules = <<>>
    /\ pattern_keys = <<>>
    /\ pattern = Pattern(None)
    /\ counts = <<>>

NextAux ==
    \/ CheckMissingGetXmlRules
    \/ CheckMissingGetCodacyPatterns
    \/ CheckMissingReport
    \/ DefaultsGetXmlRules
    \/ DefaultsGetAllSonarcPatterns
    \/ DefaultsReport
    \/ VerifyGetXmlRules
    \/ VerifyGetEnabledPatterns
    \/ VerifyReport
    \/ DebugCreateMinimalStandard
    \/ DebugCheckInitial
    \/ DebugDisableAllTools
    \/ DebugDisableTool
    \/ DebugDisableReturns
    \/ DebugCheckAfter
    \/ DebugSummary

\* the runs of the four auxiliary scripts, from the first step of main after
\* the API token is there
SpecAux == InitAux /\ [][NextAux]_vars

\* the four auxiliary scripts
AuxScripts == {CheckMissingRules, GetDefaultPatterns, VerifyCodingStandard, DebugPatternCount}

\* a request of the run has failed
RequestFailed == \E i \in 1..Len(requests) : ~requests[i].ok

\* C5: in the auxiliary scripts, once a request has failed no comparison or
\* summary is printed, and the script exits with a nonzero status.
C5_FailedRequestExits ==
    (script \in AuxScripts /\ RequestFailed)
        => /\ stats = {}
           /\ "Summary:" \notin printed
           /\ pc = "exited" => exit_status > 0

\* what get_all_sonarc_patterns collects from the pages of the chain
AllSonarcKeys(server) == UNION {PageRuleKeys(server[k]) : k \in Range(Chain(server))}

\* C7: for the same catalog, get_codacy_patterns of check_missing_rules gives
\* the set of keys get_all_sonarc_patterns gives, and no rule whose pattern is
\* on a later page is among the rules missing in Codacy.
C7_SameKeysAsAllPages ==
    (script = CheckMissingRules /\ pc \in {"report", "exited"}
        /\ requests # <<>> /\ ~RequestFailed)
        => /\ Range(pattern_keys) = AllSonarcKeys(catalog[SonarUuid])
           /\ (Range(xml_rules) \ Range(pattern_keys)) \cap AllSonarcKeys(catalog[SonarUuid]) = {}

\* C10: the number a script prints as 'Rules in XML', 'XML rules' or 'Total
\* rules in XML' is the number of distinct keys of the XML file.
C10_CountsDistinctKeys ==
    \A s \in stats :
        s[1] \in {"Rules in XML", "XML rules", "Total rules in XML"}
            => s[2] = Cardinality(XmlKeys)

\* the number printed under a label
Stat(label) == (CHOOSE s \in stats : s[1] = label)[2]

\* C11: in the summaries of check_missing_rules and verify_coding_standard,
\* 'XML rules' = missing + matching and the remote count = extra + matching.
C11_CountsPartition ==
    /\ (script = CheckMissingRules /\ "Summary:" \in printed)
        => /\ Stat("XML rules") = Stat("Missing in Codacy") + Stat("Matching rules")
           /\ Stat("Codacy patterns") = Stat("Extra in Codacy") + Stat("Matching rules")
    /\ (script = VerifyCodingStandard /\ "Summary:" \in printed)
        => /\ Stat("XML rules") = Stat("Missing from standard") + Stat("Correctly enabled")
           /\ Stat("Enabled patterns") = Stat("Extra in standard") + Stat("Correctly enabled")

\* ------------------------------------------------- main, up to its first step

\* the five scripts; each has the same load_env_file and get_api_token
Scripts == {Importer} \cup AuxScripts

\* lines of a .env file: the token plain, with blanks around it, commented
\* out, empty, without '=', with a second '=', another variable, a blank line
DotEnvLines ==
    { <<EnvName, "=", "t">>,
      <<" ", EnvName, " ", "=", " ", "t", " ">>,
      <<"#", EnvName, "=", "t">>,
      <<EnvName, "=">>,
      <<EnvName>>,
      <<EnvName, "=", "t", "=", "u">>,
      <<"X", "=", "u">>,
      <<" ">> }

\* the .env file: not there, or up to MaxEnvLines lines
DotEnvFiles ==
    { [exists |-> FALSE, lines |-> <<>>] }
    \cup { [exists |-> TRUE, lines |-> l] : l \in SeqsUpTo(DotEnvLines, MaxEnvLines) }

\* the environment of the process: the variable unset, empty, or set
ProcessEnvs == { <<>>, << << <<EnvName>>, EmptyStr >> >>, << << <<EnvName>>, <<"p">> >> >> }

\* --api-token: not given, given empty, given
ArgTokens == {None, EmptyStr, <<"a">>}

\* the first step of main after get_api_token
FirstStep(sc) ==
    IF sc = Importer THEN "parse_sonar_xml"
    ELSE IF sc = DebugPatternCount THEN "create_minimal_standard"
    ELSE "get_xml_rules"

\* load_env_file, called by get_api_token
LoadEnvFile ==
    /\ pc = "load_env_file"
    /\ environ' = IF env_file.exists THEN LoadLines(environ, env_file.lines) ELSE environ
    /\ pc' = "get_api_token"
    /\ UNCHANGED <<script, exit_status, printed, stats, requests, failures>>
    /\ UNCHANGED <<input_vars, args_token, env_file, process_env, api_token>>
    /\ UNCHANGED <<aux_vars, importer_vars, collector_vars>>

\* get_api_token that returns whatever it found
GetApiTokenNoExit ==
    /\ pc = "get_api_token"
    /\ LET env_token == DictGet(environ, <<EnvName>>, None)
           token == IF Truthy(args_token) THEN args_token ELSE env_token
       IN /\ api_token' = token
          /\ pc' = FirstStep(script)
          /\ UNCHANGED <<printed, exit_status>>
    /\ UNCHANGED <<script, stats, requests, failures>>
    /\ UNCHANGED <<input_vars, args_token, env_file, process_env, environ>>
    /\ UNCHANGED <<aux_vars, importer_vars, collector_vars>>

\* the rest of get_api_token: args_token or os.getenv(...); without a token
\* the error and exit status 1
GetApiToken ==
    /\ pc = "get_api_token"
    /\ LET env_token == DictGet(environ, <<EnvName>>, None)
           token == IF Truthy(args_token) THEN args_token ELSE env_token
       IN IF Truthy(token)
          THEN /\ api_token' = token
               /\ pc' = FirstStep(script)
               /\ UNCHANGED <<printed, exit_status>>
          ELSE /\ ExitWith("Error: Codacy API token is required.", 1)
               /\ UNCHANGED api_token
    /\ UNCHANGED <<script, stats, requests, failures>>
    /\ UNCHANGED <<input_vars, args_token, env_file, process_env, environ>>
    /\ UNCHANGED <<aux_vars, importer_vars, collector_vars>>

\* a script is started: any argument, any environment, any .env file; the XML
\* file is not there or holds one rule
InitMain ==
    /\ script \in Scripts
    /\ pc = "load_env_file"
    /\ args_token \in ArgTokens
    /\ env_file \in DotEnvFiles
    /\ process_env \in ProcessEnvs
    /\ environ = process_env
    /\ api_token = None
    /\ xml \in { [status |-> "missing", rules |-> <<>>],
                 [status |-> "ok", rules |-> << CHOOSE e \in RuleElements : e.key = <<"S", "2">> >>] }
    /\ exit_status = Running
    /\ printed = {}
    /\ stats = {}
    /\ requests = <<>>
    /\ failures = 0
    /\ files = <<>>
    /\ remote_tools = <<>>
    /\ std_tools = <<>>
    /\ existing_names = {}
    /\ catalog = [u \in Uuids |-> OtherServer]
    /\ standard_name \in StandardNames
    /\ sonar_rules = <<>>
    /\ tool_uuids = <<>>
    /\ standard_id = Missing
    /\ final_name = None
    /\ todo = <<>>
    /\ tool_patterns = <<>>
    /\ enabled_rules_count = 0
    /\ reported_name = None
    /\ collector = "none"
    /\ cpc = "idle"
    /\ col_uuid = SonarUuid
    /\ cursor = None
    /\ all_patterns = {}
    /\ col_failed = FALSE
    /\ std_patterns = <<>>
    /\ xml_rules = <<>>
    /\ pattern_keys = <<>>
    /\ pattern = Pattern(None)
    /\ counts = <<>>

NextMain ==
    \/ LoadEnvFile
    \/ GetApiToken
    \/ ParseSonarXml
    \/ CheckMissingGetXmlRules
    \/ DefaultsGetXmlRules
    \/ VerifyGetXmlRules
    \/ DebugCreateMinimalStandard

\* main of the five scripts from its start to the end of its first step
SpecMain == InitMain /\ [][NextMain]_vars

\* what the .env file defines the variable as
DotEnvValue(file) ==
    IF file.exists THEN DictGet(LoadLines(<<>>, file.lines), <<EnvName>>, None) ELSE None

\* the token by the priority argument, process environment, .env file
TokenByPriority ==
    IF Truthy(args_token) THEN args_token
    ELSE IF Truthy(DictGet(process_env, <<EnvName>>, None))
         THEN DictGet(process_env, <<EnvName>>, None)
    ELSE IF Truthy(DotEnvValue(env_file)) THEN DotEnvValue(env_file)
    ELSE None

\* C12: get_api_token returns the token by the priority argument, then the
\* variable of the process environment, then the variable of the .env file.
C12_TokenPriority ==
    pc \notin {"load_env_file", "get_api_token"} => api_token = TokenByPriority

\* C13: when neither the argument nor the process environment nor the .env
\* file gives a non-empty token, the script ends with the error and status 1,
\* with no request sent and the XML file not read.
C13_NoTokenExits ==
    (TokenByPriority = None /\ pc \notin {"load_env_file", "get_api_token"})
        => /\ pc = "exited" /\ exit_status = 1
           /\ printed = {"Error: Codacy API token is required."}
           /\ requests = <<>> /\ stats = {}
           /\ sonar_rules = <<>> /\ xml_rules = <<>>

\* a script has ended without a token: the argument given empty, the variable
\* set empty in the process environment, and a .env file that sets it empty
C13_Witness ==
    /\ pc = "exited" /\ exit_status = 1 /\ TokenByPriority = None
    /\ args_token = EmptyStr
    /\ DictHas(process_env, <<EnvName>>)
    /\ env_file.exists /\ DictHas(environ, <<EnvName>>) /\ environ # process_env

\* ------------------------------------------------- runs of the importer in a row

\* the names asked for in the runs in a row: a plain one, and one that looks suffixed
RunNames == { <<"N">>, Suffixed(<<"N">>, 1) }

\* the standards of the organization before the first run
FirstNameSets ==
    { {}, {<<"N">>}, {<<"N">>, Suffixed(<<"N">>, 1)}, {<<"N">>, Suffixed(<<"N">>, 2)},
      {Suffixed(<<"N">>, 1), Suffixed(Suffixed(<<"N">>, 1), 1)} }

\* the importer is about to create its coding standard
InitRuns ==
    /\ TokenReady
    /\ script = Importer
    /\ pc = "create_coding_standard"
    /\ exit_status = Running
    /\ printed = {}
    /\ stats = {}
    /\ requests = <<>>
    /\ failures = 0
    /\ files = <<>>
    /\ xml = [status |-> "ok", rules |-> <<>>]
    /\ remote_tools = <<>>
    /\ std_tools = <<>>
    /\ existing_names \in FirstNameSets
    /\ catalog = [u \in Uuids |-> OtherServer]
    /\ standard_name \in RunNames
    /\ sonar_rules = <<>>
    /\ tool_uuids = <<>>
    /\ standard_id = Missing
    /\ final_name = None
    /\ todo = <<>>
    /\ tool_patterns = <<>>
    /\ enabled_rules_count = 0
    /\ reported_name = None
    /\ collector = "none"
    /\ cpc = "idle"
    /\ col_uuid = SonarUuid
    /\ cursor = None
    /\ all_patterns = {}
    /\ col_failed = FALSE
    /\ std_patterns = <<>>
    /\ xml_rules = <<>>
    /\ pattern_keys = <<>>
    /\ pattern = Pattern(None)
    /\ counts = <<>>

\* the script is run again with the same arguments, while the organization
\* has fewer than MaxNames standards; the new process is at the same step
NextRunStarts ==
    /\ script = Importer
    /\ pc \in {NextStep("create_coding_standard"), "exited"}
    /\ Cardinality(existing_names) < MaxNames
    /\ pc' = "create_coding_standard"
    /\ exit_status' = Running
    /\ printed' = {}
    /\ requests' = <<>>
    /\ failures' = 0
    /\ final_name' = None
    /\ standard_id' = Missing
    /\ UNCHANGED <<script, stats, fixed_vars, collector_vars>>
    /\ UNCHANGED <<sonar_rules, tool_uuids, todo, tool_patterns, enabled_rules_count, files,
                   existing_names, reported_name>>

NextRuns ==
    \/ GetUniqueStandardName
    \/ CreateCodingStandard
    \/ NextRunStarts

\* create_coding_standard, in runs of the importer one after the other
SpecRuns == InitRuns /\ [][NextRuns]_vars

\* final_name is the requested name if it is free, else the suffixed name with
\* the smallest counter from 1 that is free
SmallestFreeName ==
    IF standard_name \notin existing_names
    THEN final_name = standard_name
    ELSE \E k \in 1..(Cardinality(existing_names) + 1) :
            /\ final_name = Suffixed(standard_name, k)
            /\ Suffixed(standard_name, k) \notin existing_names
            /\ \A j \in 1..(k - 1) : Suffixed(standard_name, j) \in existing_names

\* C14: after a listing that succeeded, the name of the create POST is the
\* smallest free name, and a create that succeeds adds a standard whose name
\* no standard of the organization had.
C14_UniqueName ==
    [][(pc = "create_post" /\ requests[Len(requests)].ok)
        => /\ SmallestFreeName
           /\ pc' = NextStep("create_coding_standard")
                => /\ final_name \notin existing_names
                   /\ existing_names' = existing_names \cup {final_name}]_vars

\* a later run has created the standard with counter 3, every listing having
\* succeeded in it
C14_Witness ==
    /\ pc = NextStep("create_coding_standard")
    /\ final_name = Suffixed(standard_name, 3)
    /\ \A i \in 1..Len(requests) : requests[i].ok

\* the enabling PATCH requests of the run
EnablingRequests == {i \in 1..Len(requests) : IsEnable(requests[i])}

\* the positions of a patterns list that carry the given id
PositionsOf(patterns, id) == {k \in 1..Len(patterns) : patterns[k].id = id}

\* C15: in the patterns list of every enabling PATCH each pattern id occurs at
\* most once, also when the XML names the same rule key in several <rule>
\* elements or under both repository keys, and no id is listed both with
\* enabled true and with enabled false.
C15_PatternIdsOnce ==
    \A i \in EnablingRequests :
        LET patterns == requests[i].body.patterns
        IN  /\ \A k \in 1..Len(patterns) :
                 Cardinality(PositionsOf(patterns, patterns[k].id)) = 1
            /\ IdsWith(patterns, TRUE) \cap IdsWith(patterns, FALSE) = {}

\* the half of C15 the code keeps: no id of an enabling PATCH is listed both
\* as enabled and as disabled
C15_NeverBothValues ==
    \A i \in EnablingRequests :
        IdsWith(requests[i].body.patterns, TRUE)
            \cap IdsWith(requests[i].body.patterns, FALSE) = {}

\* the value the <parameters> element of a <rule> gives a key: that of the
\* last <parameter> of that key
XmlParameterValue(e, key) ==
    LET at == {i \in 1..Len(e.parameters) : e.parameters[i][1] = key}
    IN  e.parameters[CHOOSE i \in at : \A j \in at : j <= i][2]

\* the {name, value} entries the parameters of a <rule> element call for
XmlParameterEntries(e) ==
    IF ~e.has_parameters THEN {}
    ELSE {[name |-> e.parameters[i][1], value |-> XmlParameterValue(e, e.parameters[i][1])] :
            i \in 1..Len(e.parameters)}

\* the entries of the 'parameters' field of a pattern of a PATCH body
EntriesOf(p) == {p.parameters[i] : i \in 1..Len(p.parameters)}

\* the <rule> elements an enabling PATCH with these enabled ids stands for, in
\* document order
RulesSentAs(ids) ==
    SelectSeq(xml.rules, LAMBDA e : /\ ToolNameOf(e.repositoryKey) # Missing
                                    /\ PatternIdOf(e.key) \in ids)

\* the enabled patterns of a patterns list, in their order
EnabledOf(patterns) == SelectSeq(patterns, LAMBDA p : p.enabled)

\* C16: the enabled patterns of every enabling PATCH are, one for one and in
\* document order, the XML rules they stand for, each with exactly the
\* parameters of its rule: one {name, value} entry per parameter key and no
\* other, and no 'parameters' field for a rule without a <parameters> element
\* or with an empty one; the disabled patterns carry no parameters.
C16_ExactParameters ==
    \A i \in EnablingRequests :
        LET patterns == requests[i].body.patterns
            sent == EnabledOf(patterns)
            rules == RulesSentAs(IdsWith(patterns, TRUE))
        IN  /\ Len(sent) = Len(rules)
            /\ \A k \in 1..Len(sent) :
                /\ sent[k].id = PatternIdOf(rules[k].key)
                /\ sent[k].has_parameters = (XmlParameterEntries(rules[k]) # {})
                /\ EntriesOf(sent[k]) = XmlParameterEntries(rules[k])
                /\ Len(sent[k].parameters) = Cardinality(XmlParameterEntries(rules[k]))
            /\ \A k \in 1..Len(patterns) :
                ~patterns[k].enabled =>
                    ~patterns[k].has_parameters /\ patterns[k].parameters = <<>>

\* C16 witness: a successful enabling PATCH went out with a pattern that
\* carries the parameter of its rule, a pattern without the field for a rule
\* without <parameters>, and a disabled pattern
C16_Witness ==
    \E i \in EnablingRequests :
        LET patterns == requests[i].body.patterns IN
        /\ requests[i].ok
        /\ \E k \in 1..Len(patterns) :
             /\ patterns[k].enabled
             /\ patterns[k].has_parameters
             /\ patterns[k].parameters = <<[name |-> "max", value |-> "3"]>>
        /\ \E k \in 1..Len(patterns) : patterns[k].enabled /\ ~patterns[k].has_parameters
        /\ \E k \in 1..Len(patterns) : ~patterns[k].enabled

\* the other case of C16: a successful enabling PATCH went out for the rule
\* whose <parameters> element is there but empty
C16_EmptyElementSent ==
    /\ xml.rules = <<EmptyParametersRule>>
    /\ \E i \in EnablingRequests :
        LET patterns == requests[i].body.patterns IN
        /\ requests[i].ok
        /\ \E k \in 1..Len(patterns) : patterns[k].enabled /\ ~patterns[k].has_parameters
        /\ \E k \in 1..Len(patterns) : ~patterns[k].enabled

\* the uuids of the tools listed for the new coding standard
StandardToolUuids == {std_tools[i].uuid : i \in 1..Len(std_tools)} \ {Missing}

\* the disabling PATCH requests sent for a tool
DisablesOf(uuid) ==
    {i \in 1..Len(requests) : IsDisable(requests[i]) /\ requests[i].uuid = uuid}

\* disable_all_tools has returned
DisableAllToolsDone == \E n \in 0..Len(std_tools) : <<"Disabled tools", n>> \in stats

\* the part of C17 about the requests: once disable_all_tools has returned,
\* one PATCH {enabled: false, patterns: []} has been sent for every tool with a
\* uuid, and none for anything else
C17_OnePatchPerTool ==
    DisableAllToolsDone =>
        /\ \A u \in StandardToolUuids :
            /\ Cardinality(DisablesOf(u)) = 1
            /\ \A i \in DisablesOf(u) : requests[i].body = DisablePayload
        /\ \A i \in 1..Len(requests) :
            IsDisable(requests[i]) => requests[i].uuid \in StandardToolUuids

\* C17: once disable_all_tools has returned, exactly one PATCH
\* {enabled: false, patterns: []} has been sent for every tool of the standard
\* that has a uuid, the number N of 'Disabled N tools' is the number of tools
\* that are disabled, and every enabling PATCH comes after a successful
\* disabling PATCH of each of those tools.
C17_AllDisabledFirst ==
    /\ C17_OnePatchPerTool
    /\ \A n \in 0..Len(std_tools) :
        <<"Disabled tools", n>> \in stats =>
            n = Cardinality({u \in StandardToolUuids :
                                \E i \in DisablesOf(u) : requests[i].ok})
    /\ \A j \in EnablingRequests :
        \A u \in StandardToolUuids :
            \E i \in DisablesOf(u) : i < j /\ requests[i].ok

\* the order C17 asks for, without the count: every enabling PATCH comes
\* after a successful disabling PATCH of every tool with a uuid
C17_EnableAfterDisabled ==
    \A j \in EnablingRequests :
        \A u \in StandardToolUuids :
            \E i \in DisablesOf(u) : i < j /\ requests[i].ok

\* the keys of the rules parse_sonar_xml has collected
ImporterRuleKeys == {sonar_rules[i].key : i \in 1..Len(sonar_rules)}

\* the keys get_xml_rules returns for the same document
CheckerRuleKeys ==
    {XmlRuleKeys(xml.rules)[i] : i \in 1..Len(XmlRuleKeys(xml.rules))}

\* parse_sonar_xml has gone through a well-formed document
ParsedDocument == script = Importer /\ xml.status = "ok" /\ pc # "parse_sonar_xml"

\* C18: once parse_sonar_xml has gone through a well-formed document, it has
\* not aborted the run (it reports 'Successfully parsed') and the keys of the
\* rules it collected are the keys get_xml_rules collects from that document;
\* a <rule> without <key>, repositoryKey or priority is skipped.
C18_SameRuleSet ==
    ParsedDocument =>
        /\ \E n \in 0..Len(xml.rules) : <<"Successfully parsed", n>> \in stats
        /\ "Unexpected error" \notin printed
        /\ ImporterRuleKeys = CheckerRuleKeys

\* what C18 comes to for the documents whose <rule> elements all have the
\* three children: the two key sets are equal
C18_SameKeysWhenComplete ==
    (ParsedDocument /\ \A i \in 1..Len(xml.rules) : xml.rules[i].key # None) =>
        ImporterRuleKeys = CheckerRuleKeys

\* the pattern ids sent with enabled = true in a successful enabling PATCH
SentEnabled ==
    UNION {IdsWith(requests[i].body.patterns, TRUE) :
             i \in {j \in EnablingRequests : requests[j].ok}}

\* the entries of the output file of the given kind
FileEntries(kind) ==
    UNION {{files[i].rules[k] : k \in 1..Len(files[i].rules)} :
             i \in {j \in 1..Len(files) : files[j].file = kind}}

\* the rule was sent as enabled: its repository is known and its pattern id
\* was in a successful enabling PATCH
SentAsEnabled(rule) ==
    ToolNameOf(rule.repository_key) # Missing /\ PatternIdOf(rule.key) \in SentEnabled

\* the half of C19 about the enabled_patterns file
C19_EnabledFileIsWhatWasSent ==
    files # <<>> => {e.pattern_id : e \in FileEntries("enabled_patterns")} = SentEnabled

\* the half of C19 about the skipped_rules file
C19_UnsentRulesAreSkipped ==
    files # <<>> =>
        \A i \in 1..Len(sonar_rules) :
            ~SentAsEnabled(sonar_rules[i]) =>
                \E e \in FileEntries("skipped_rules") :
                    /\ e.rule_key = sonar_rules[i].key
                    /\ e.repository_key = sonar_rules[i].repository_key

\* C19: once the output files are written, the pattern ids under
\* 'enabled_patterns' are the ids sent with enabled = true in a successful
\* enabling PATCH of the run, and every XML rule that was not sent as enabled
\* is listed under 'skipped_rules'.
C19_FilesAgreeWithRemote ==
    /\ C19_EnabledFileIsWhatWasSent
    /\ C19_UnsentRulesAreSkipped

\* the names of the successful POSTs that created a coding standard
CreatedNames ==
    {requests[i].body.name : i \in {j \in 1..Len(requests) :
                                      IsCreate(requests[j]) /\ requests[j].ok}}

\* the part of C20 about the 'Created coding standard:' line
C20_ReportedLineIsCreatedName ==
    reported_name # None => reported_name \in CreatedNames

\* the part of C20 about the 'coding_standard' field of the output files
C20_FilesNameIsCreatedName ==
    \A i \in 1..Len(files) : files[i].coding_standard \in CreatedNames

\* C20: the name of the 'Created coding standard:' line and the
\* 'coding_standard' field of both output files are the name the coding
\* standard was created under, the suffixed one when the requested name was
\* taken.
C20_ReportsCreatedName ==
    /\ C20_ReportedLineIsCreatedName
    /\ C20_FilesNameIsCreatedName

\* what C20 comes to when the requested name was free: the reports name the
\* standard that was created
C20_ReportsCreatedNameWhenFree ==
    standard_name = final_name => C20_ReportsCreatedName

\* parse_sonar_xml was given a file that is not there or is not well-formed
XmlUnreadable ==
    script = Importer /\ xml.status \in {"missing", "malformed"} /\ pc # "parse_sonar_xml"

\* the tool listing request of get_tools failed
ToolListingFailed ==
    \E i \in 1..Len(requests) :
        requests[i].method = "GET" /\ requests[i].target = "tools" /\ ~requests[i].ok

\* the remote platform and the working directory are as the run found them:
\* no POST, no PATCH, no output file
NothingChanged ==
    /\ \A i \in 1..Len(requests) : ~Mutating(requests[i])
    /\ files = <<>>

\* C21: when the XML file is missing or malformed, or the tool listing request
\* of get_tools fails, the importer has exited with status 1 and has sent no
\* POST and no PATCH request and written no output file.
C21_EarlyFailureChangesNothing ==
    (XmlUnreadable \/ ToolListingFailed) =>
        /\ pc = "exited"
        /\ exit_status = 1
        /\ NothingChanged

\* C21 witness: the tool listing request failed after a document was parsed,
\* and the run is over
C21_Witness ==
    /\ ToolListingFailed
    /\ xml.status = "ok"
    /\ sonar_rules # <<>>
    /\ "Error retrieving tools" \in printed
    /\ exit_status = 1

\* the other cases of C21: the run is over after a missing XML file, and after
\* a malformed one
C21_MissingFileReached ==
    XmlUnreadable /\ xml.status = "missing" /\ "XML file not found" \in printed

C21_MalformedFileReached ==
    XmlUnreadable /\ xml.status = "malformed" /\ "Error parsing XML file" \in printed

====
